---- MODULE Spec2Model ----
(***************************************************************************)
(* Commit-and-synchronisation core: the wl_surface commit pipeline of      *)
(* protocols/core/Compositor.cpp and the explicit-sync objects of          *)
(* protocols/DRMSyncobj.cpp.                                               *)
(*                                                                         *)
(* DRMSyncobj.cpp names the "a buffer was attached since the last commit"  *)
(* flag pending.newBuffer, Compositor.cpp names it pending.updated.buffer;  *)
(* the model keeps one field, newBuffer.  DRMSyncobj.cpp stores the sync   *)
(* points on the buffer reference (bufAcquire / bufRelease); the fields    *)
(* state->updated.acquire / state->acquire read by Compositor.cpp are      *)
(* separate fields (updatedAcquire / acquire) that no code under src/      *)
(* assigns.                                                                *)
(***************************************************************************)
EXTENDS Integers, Sequences, FiniteSets, TLC

\* ------------------------------------------------------------------ bounds
AllSurfaces == {1, 2, 3}
Surfaces == {1}
Timelines == {1, 2}
PointValues == {1, 2}
ReleaseValues == {2}
MaxCommits == 3
MaxSyncCommits == 2
MaxCalls == 3
MaxLifeCommits == 2
MaxRoleCommits == 1
MaxTwoCommits == 2
MaxValue == 2
MaxImports == 2
HalfBits == 4

\* ------------------------------------------------------------------ values
NoBuf == "none"
Buffers == {"shm", "dma"}

\* IHLBuffer::isSynchronous(): shm buffers are synchronous, dmabufs are not
isSynchronous(b) == b = "shm"

\* a default-constructed CDRMSyncPointState: no timeline resource.  tl and gen
\* name the resource the weak reference m_resource points at: the gen-th
\* resource registered as tl.  staged records the submission number of the
\* commit the point was staged for.
NoPoint == [tl |-> 0, gen |-> 0, point |-> 0, acquirePoint |-> FALSE, staged |-> 0]

\* x << n in an unsigned integer of width bits
shiftLeft(x, n, width) == (x * 2^n) % 2^width

\* a | b of two unsigned integers, bit by bit
RECURSIVE bitOr(_, _)
bitOr(a, b) ==
    IF a = 0 THEN b
    ELSE IF b = 0 THEN a
    ELSE (IF a % 2 = 1 \/ b % 2 = 1 THEN 1 ELSE 0) + 2 * bitOr(a \div 2, b \div 2)

\* the expression without the casts: the shift is made in the width of hi
pointValueNarrow(hi, lo) == bitOr(shiftLeft(hi, HalfBits, HalfBits), lo)

\* ((uint64_t)hi << 32) | (uint64_t)lo, with halves of HalfBits bits: both
\* halves are widened to the full width before the shift
pointValue(hi, lo) == bitOr(shiftLeft(hi, HalfBits, 2 * HalfBits), lo)

\* the role of a surface: role->role(), and the sync flag, the parent and the
\* zIndex of the CWLSubsurfaceResource that lists it in its parent's
\* subsurfaces (parent 0: no parent lists it).  CDefaultSurfaceRole is the role
\* "unassigned".
NoRole == [role |-> "unassigned", sync |-> FALSE, parent |-> 0, zIndex |-> 0]

\* SSurfaceState after reset() / construction
EmptyState ==
    [id |-> 0, buffer |-> NoBuf, newBuffer |-> FALSE, texture |-> FALSE,
     bufAcquire |-> NoPoint, bufRelease |-> NoPoint,
     updatedAcquire |-> FALSE, acquire |-> NoPoint, rejected |-> FALSE]

VARIABLES
    alive,          \* alive[s]: the wl_surface resource exists (self / surf not expired)
    role,           \* role[s]: the surface role
    syncobj,        \* syncobj[s]: CWLSurfaceResource::syncobj of s points at a live adapter
    m_vSurfaces,    \* CDRMSyncobjProtocol::m_vSurfaces: the adapters, each with its
                    \* surface and whether the surface's syncobj points at it
    pending,        \* pending[s]: SSurfaceState pending
    current,        \* current[s]: SSurfaceState current
    pendingStates,  \* pendingStates[s]: CWLSurfaceResource::pendingStates (queue)
    syncStates,     \* syncStates[s]: CDRMSyncobjSurfaceResource::pendingStates (vector)
    pendingAcquire, \* pendingAcquire[s]: staged acquire point of the adapter
    pendingRelease, \* pendingRelease[s]: staged release point of the adapter
    tlAlive,        \* tlAlive[t]: the timeline resource t is registered
    tlNull,         \* tlNull[t]: the import of t failed, its timeline is null
    tlGen,          \* tlGen[t]: how many timeline resources have been registered as t; the
                    \* resource registered now is the tlGen[t]-th one
    mapped,         \* mapped[s]: CWLSurfaceResource::mapped
    tlValue,        \* tlValue[t]: the value the timeline t has been signalled to
    waiters,        \* waiters registered with the timelines
    fdWaiters,      \* readability callbacks registered with the event loop
    syncReleaser,   \* syncReleaser[b]: IHLBuffer::syncReleaser of buffer b
    released,       \* released[i]: how often the release point of commit i was signalled
    applied,        \* applied[s]: the states applied to current[s], in order
    skipped,        \* the callbacks that ran and returned without touching a state
    lastError,      \* lastError[s]: the protocol error posted on the adapter of s
    nextId,         \* submission number of the next commit
    commitLimit,    \* the number of commits the run may make
    pt              \* one CDRMSyncPointState object and what its calls have done

vars == <<alive, role, syncobj, m_vSurfaces, pending, current, pendingStates, syncStates,
          pendingAcquire, pendingRelease, tlAlive, tlNull, tlGen, mapped, tlValue, waiters, fdWaiters,
          syncReleaser, released, applied, skipped, lastError, nextId, commitLimit, pt>>

\* ------------------------------------------------------------------ world
\* The part of the state one handler of surface s reads and writes.
World(s) ==
    [self |-> s, pending |-> pending[s], current |-> current[s], queue |-> pendingStates[s],
     syncQueue |-> syncStates[s], pacq |-> pendingAcquire[s], prel |-> pendingRelease[s],
     waiters |-> waiters, fdw |-> fdWaiters, releaser |-> syncReleaser,
     released |-> released, tlValue |-> tlValue, applied |-> applied[s],
     skipped |-> skipped, error |-> lastError[s]]

Install(s, w) ==
    /\ pending' = [pending EXCEPT ![s] = w.pending]
    /\ current' = [current EXCEPT ![s] = w.current]
    /\ pendingStates' = [pendingStates EXCEPT ![s] = w.queue]
    /\ syncStates' = [syncStates EXCEPT ![s] = w.syncQueue]
    /\ pendingAcquire' = [pendingAcquire EXCEPT ![s] = w.pacq]
    /\ pendingRelease' = [pendingRelease EXCEPT ![s] = w.prel]
    /\ waiters' = w.waiters
    /\ fdWaiters' = w.fdw
    /\ syncReleaser' = w.releaser
    /\ released' = w.released
    /\ tlValue' = w.tlValue
    /\ applied' = [applied EXCEPT ![s] = w.applied]
    /\ skipped' = w.skipped
    /\ lastError' = [lastError EXCEPT ![s] = w.error]

\* ------------------------------------------------------------------ sync points
\* expired() that does not notice that the timeline resource was destroyed
expiredUnnoticed(p) == p.tl = 0

\* CDRMSyncPointState::expired(): no timeline resource, the resource is gone
\* (a resource registered later under the same name is another one), or it
\* holds no timeline
expired(p) == p.tl = 0 \/ ~tlAlive[p.tl] \/ p.gen # tlGen[p.tl] \/ tlNull[p.tl]

\* CDRMSyncPointState::timeline(): empty (0) on an expired point
timeline(p) == IF expired(p) THEN 0 ELSE p.tl

\* ------------------------------------------------------------------ apply
\* SSurfaceState::updateFrom: current takes the state over; the buffer and its
\* texture only when the state carries a newly attached buffer.
updateFrom(cur, st) ==
    [id |-> st.id,
     buffer |-> IF st.newBuffer THEN st.buffer ELSE cur.buffer,
     texture |-> IF st.newBuffer THEN st.texture ELSE cur.texture]

\* has the acquire fence of st signalled (trivially so without an acquire point)?
fenceSignalled(w, st) ==
    st.bufAcquire = NoPoint \/ w.tlValue[st.bufAcquire.tl] >= st.bufAcquire.point

\* what the history records of one apply: the state's submission number, the
\* buffer it brings ("same" when it attaches none), the path that applied it
\* and whether its acquire fence had signalled
logEntry(w, st, via, emitted) ==
    [id |-> st.id, buf |-> IF st.newBuffer THEN st.buffer ELSE "same", via |-> via,
     ready |-> fenceSignalled(w, st), emitted |-> emitted]

\* n->subsurfaces without the expired ones: the vector is kept sorted by
\* zIndex, lowest first.  It lists the sub-surface resources under n, whatever
\* role object their surfaces hold now.
subsurfaces(n) ==
    LET cs == {c \in AllSurfaces : role[c].parent = n /\ alive[c]}
        RECURSIVE asSeq(_)
        asSeq(S) == IF S = {} THEN <<>>
                    ELSE LET m == CHOOSE x \in S :
                                      \A y \in S : \/ role[x].zIndex < role[y].zIndex
                                                   \/ role[x].zIndex = role[y].zIndex /\ x <= y
                         IN  <<m>> \o asSeq(S \ {m})
    IN  asSeq(cs)

\* nodes2 after one of the two loops of bfHelper over nodes: the sub-surfaces
\* of all of nodes, in order, those stacked below their parent (zIndex < 0)
\* or those stacked above it (zIndex >= 0)
RECURSIVE gather(_, _)
gather(nodes, below) ==
    IF nodes = <<>> THEN <<>>
    ELSE SelectSeq(subsurfaces(Head(nodes)), LAMBDA c : (role[c].zIndex < 0) = below)
             \o gather(Tail(nodes), below)

\* CWLSurfaceResource::bfHelper: the surfaces fn is called on, in order: first
\* the walk of the sub-surfaces below nodes, then nodes themselves, then the
\* walk of the sub-surfaces above nodes
RECURSIVE bfHelper(_)
bfHelper(nodes) ==
    LET lower == gather(nodes, TRUE)
        upper == gather(nodes, FALSE)
    IN  (IF lower = <<>> THEN <<>> ELSE bfHelper(lower))
            \o nodes
            \o (IF upper = <<>> THEN <<>> ELSE bfHelper(upper))

\* CWLSurfaceResource::breadthfirst from the surface s
breadthfirst(s) == bfHelper(<<s>>)

\* the surfaces commitState of a surface with role r emits a commit event on
commitEvents(self, r) ==
    IF r.role = "subsurface"
    THEN IF r.sync THEN <<>> ELSE <<self>>
    ELSE SelectSeq(breadthfirst(self),
                   LAMBDA n : ~(role[n].role = "subsurface" /\ ~role[n].sync))

\* CWLSurfaceResource::dropCurrentBuffer
dropCurrentBuffer(cur) == [cur EXCEPT !.buffer = NoBuf]

\* CWLSurfaceResource::dropPendingBuffer: the buffer reference of pending is
\* dropped, and with it the points it carried
dropPendingBuffer(p) == [p EXCEPT !.buffer = NoBuf, !.bufAcquire = NoPoint, !.bufRelease = NoPoint]

\* CWLSurfaceResource::releaseBuffers
releaseBuffers(w, onlyCurrent) ==
    LET w1 == IF onlyCurrent THEN w ELSE [w EXCEPT !.pending = dropPendingBuffer(@)]
    IN  [w1 EXCEPT !.current = dropCurrentBuffer(@)]

\* commitState that emits the commit of a synchronized sub-surface on itself
commitStateSyncEmits(w, st, r, via) ==
    LET c1 == updateFrom(w.current, st)
        ev == IF r.role = "subsurface" THEN <<w.self>> ELSE commitEvents(w.self, r)
        c2 == IF r.role = "subsurface" /\ r.sync THEN c1
              ELSE IF c1.buffer # NoBuf /\ isSynchronous(c1.buffer) /\ r.role # "unassigned"
              THEN dropCurrentBuffer(c1) ELSE c1
    IN  [w EXCEPT !.current = c2, !.applied = Append(@, logEntry(w, st, via, ev))]

\* CWLSurfaceResource::commitState: apply st to current and emit the commit
\* events; a synchronized sub-surface returns right there; a synchronous
\* buffer is released again at once when the surface has a role.
commitState(w, st, r, via) ==
    LET c1 == updateFrom(w.current, st)
        c2 == IF r.role = "subsurface" /\ r.sync THEN c1
              ELSE IF c1.buffer # NoBuf /\ isSynchronous(c1.buffer) /\ r.role # "unassigned"
              THEN dropCurrentBuffer(c1) ELSE c1
    IN  [w EXCEPT !.current = c2,
                  !.applied = Append(@, logEntry(w, st, via, commitEvents(w.self, r)))]

\* CWLSurfaceResource::commitPendingState (called by the adapter): apply st
commitPendingState(w, st, r, via) == commitState(w, st, r, via)

\* ------------------------------------------------------------------ surface queue
\* a weak reference that never expires, as if the popped state were kept alive
stateExpiredNever(q, id) == FALSE

\* has the queued state with submission number id been freed (WP expired)?
stateExpired(q, id) == \A i \in 1..Len(q) : q[i].id # id

\* the loop of whenReadable: apply and pop every state in front of id
RECURSIVE drainBefore(_, _, _)
drainBefore(w, id, r) ==
    IF w.queue # <<>> /\ Head(w.queue).id # id
    THEN drainBefore([commitState(w, Head(w.queue), r, "queue") EXCEPT !.queue = Tail(@)], id, r)
    ELSE w

\* whenReadable without its loop: the state id alone is applied and removed
whenReadableNoDrain(w, surfAlive, id, r) ==
    IF ~surfAlive \/ stateExpired(w.queue, id)
    THEN w
    ELSE LET st == w.queue[CHOOSE i \in 1..Len(w.queue) : w.queue[i].id = id]
         IN  [commitState(w, st, r, "queue")
                EXCEPT !.queue = SelectSeq(@, LAMBDA x : x.id # id)]

\* what skipped records of a callback that returned at its guard
skip(w, surfAlive, id) ==
    [w EXCEPT !.skipped = @ \cup {[surf |-> w.self, id |-> id, alive |-> surfAlive]}]

\* the whenReadable closure of setCommit for the queued state id
whenReadable(w, surfAlive, id, r) ==
    IF ~surfAlive \/ stateExpired(w.queue, id)
    THEN skip(w, surfAlive, id)
    ELSE LET w1 == drainBefore(w, id, r)
         IN  [commitState(w1, Head(w1.queue), r, "queue") EXCEPT !.queue = Tail(@)]

\* ------------------------------------------------------------------ adapter
\* protocolError that compares the points with > instead of >=
protocolErrorStrict(p) ==
    IF ~p.texture THEN "NO_BUFFER"
    ELSE IF p.bufAcquire = NoPoint \/ timeline(p.bufAcquire) = 0 THEN "NO_ACQUIRE_POINT"
    ELSE IF p.bufRelease = NoPoint \/ timeline(p.bufRelease) = 0 THEN "NO_RELEASE_POINT"
    ELSE IF timeline(p.bufAcquire) = timeline(p.bufRelease)
            /\ p.bufAcquire.point > p.bufRelease.point THEN "CONFLICTING_POINTS"
    ELSE "none"

\* protocolError that looks at the release point before the acquire point
protocolErrorSwapped(p) ==
    IF ~p.texture THEN "NO_BUFFER"
    ELSE IF p.bufRelease = NoPoint \/ timeline(p.bufRelease) = 0 THEN "NO_RELEASE_POINT"
    ELSE IF p.bufAcquire = NoPoint \/ timeline(p.bufAcquire) = 0 THEN "NO_ACQUIRE_POINT"
    ELSE IF timeline(p.bufAcquire) = timeline(p.bufRelease)
            /\ p.bufAcquire.point >= p.bufRelease.point THEN "CONFLICTING_POINTS"
    ELSE "none"

\* CDRMSyncobjSurfaceResource::protocolError on the pending state p
protocolError(p) ==
    IF ~p.texture THEN "NO_BUFFER"
    ELSE IF p.bufAcquire = NoPoint \/ timeline(p.bufAcquire) = 0 THEN "NO_ACQUIRE_POINT"
    ELSE IF p.bufRelease = NoPoint \/ timeline(p.bufRelease) = 0 THEN "NO_RELEASE_POINT"
    ELSE IF timeline(p.bufAcquire) = timeline(p.bufRelease)
            /\ p.bufAcquire.point >= p.bufRelease.point THEN "CONFLICTING_POINTS"
    ELSE "none"

\* the timelines CDRMSyncobjSurfaceResource::removeAllWaiters clears
clearedTimelines(q) ==
    {q[i].bufAcquire.tl : i \in {j \in 1..Len(q) : q[j].buffer # NoBuf /\ ~expired(q[j].bufAcquire)}}

\* CDRMSyncobjSurfaceResource::removeAllWaiters
removeAllWaiters(w) ==
    [w EXCEPT !.waiters = {x \in @ : x.tl \notin clearedTimelines(w.syncQueue)},
              !.syncQueue = <<>>]

\* ------------------------------------------------------------------ releasers
NoRel == [tl |-> 0, gen |-> 0, point |-> 0, id |-> 0]

Max(a, b) == IF a >= b THEN a ELSE b

\* CSyncReleaser fires (destroyed or triggered): signal its timeline at its
\* point; the timeline of a destroyed resource is no longer observed
fireReleaser(w, rel) ==
    IF rel = NoRel THEN w
    ELSE [w EXCEPT !.released[rel.id] = @ + 1,
                   !.tlValue[rel.tl] = IF tlAlive[rel.tl] /\ rel.gen = tlGen[rel.tl]
                                       THEN Max(@, rel.point) ELSE @]

\* state->buffer->buffer->syncReleaser = state->buffer->release->createSyncRelease():
\* the releaser the buffer held before is destroyed by the assignment
setSyncReleaser(w, st) ==
    IF st.buffer = NoBuf THEN w ELSE
    LET new == IF expired(st.bufRelease) THEN NoRel
               ELSE [tl |-> st.bufRelease.tl, gen |-> st.bufRelease.gen,
                     point |-> st.bufRelease.point, id |-> st.id]
    IN  [fireReleaser(w, w.releaser[st.buffer]) EXCEPT !.releaser[st.buffer] = new]

\* state->buffer->acquire->addWaiter(callback): false on an expired point, else
\* whatever the timeline answers (ok)
addWaiter(w, p, s, id, kind, ok) ==
    IF expired(p) \/ ~ok THEN w
    ELSE [w EXCEPT !.waiters = @ \cup {[tl |-> p.tl, point |-> p.point, surf |-> s,
                                        id |-> id, kind |-> kind]}]

\* current, seen as the state commitPendingState(surface->current) is handed
currentAsState(cur) ==
    [EmptyState EXCEPT !.id = cur.id, !.buffer = cur.buffer, !.texture = cur.texture]

\* a listener that leaves the buffer in pending after it has snapshotted it
surfacePrecommitKeepBuffer(w, s, r, ok, nullRead) ==
    LET p == w.pending IN
    IF p.buffer = NoBuf /\ p.newBuffer /\ ~p.texture
    THEN commitPendingState(removeAllWaiters(w), p, r, "pre")
    ELSE IF p.buffer = NoBuf /\ ~p.newBuffer /\ w.current.buffer # NoBuf
    THEN commitPendingState(w, currentAsState(w.current), r, "pre")
    ELSE IF p.buffer = NoBuf /\ ~p.newBuffer /\ w.current.buffer = NoBuf
    THEN commitPendingState(w, p, r, "pre")
    ELSE IF p.buffer = NoBuf /\ nullRead = "fault" THEN [w EXCEPT !.error = "NULL_DEREF"]
    ELSE
        LET p1 == [p EXCEPT !.bufAcquire = IF ~expired(w.pacq) THEN w.pacq ELSE @,
                            !.bufRelease = IF ~expired(w.prel) THEN w.prel ELSE @]
            w1 == [w EXCEPT !.pending = p1,
                            !.pacq = IF ~expired(@) THEN NoPoint ELSE @,
                            !.prel = IF ~expired(@) THEN NoPoint ELSE @]
            err == protocolError(p1)
        IN  IF err # "none"
            THEN [w1 EXCEPT !.pending.rejected = TRUE, !.error = err]
            ELSE LET w2 == [w1 EXCEPT !.syncQueue = Append(@, p1)]
                     w3 == setSyncReleaser(w2, p1)
                 IN  addWaiter(w3, p1.bufAcquire, s, p1.id, "sync", ok)

\* the surfacePrecommit listener of CDRMSyncobjSurfaceResource.  With a null
\* buffer reference in a pending state that is flagged new and has a texture,
\* pending.buffer->acquire and ->release go through the null reference: the
\* behaviour is undefined, the access faults or the listener goes on with the
\* points it holds.
surfacePrecommit(w, s, r, ok, nullRead) ==
    LET p == w.pending IN
    IF p.buffer = NoBuf /\ p.newBuffer /\ ~p.texture
    THEN commitPendingState(removeAllWaiters(w), p, r, "pre")
    ELSE IF p.buffer = NoBuf /\ ~p.newBuffer /\ w.current.buffer # NoBuf
    THEN commitPendingState(w, currentAsState(w.current), r, "pre")
    ELSE IF p.buffer = NoBuf /\ ~p.newBuffer /\ w.current.buffer = NoBuf
    THEN commitPendingState(w, p, r, "pre")
    ELSE IF p.buffer = NoBuf /\ nullRead = "fault" THEN [w EXCEPT !.error = "NULL_DEREF"]
    ELSE
        LET p1 == [p EXCEPT !.bufAcquire = IF ~expired(w.pacq) THEN w.pacq ELSE @,
                            !.bufRelease = IF ~expired(w.prel) THEN w.prel ELSE @]
            w1 == [w EXCEPT !.pending = p1,
                            !.pacq = IF ~expired(@) THEN NoPoint ELSE @,
                            !.prel = IF ~expired(@) THEN NoPoint ELSE @]
            err == protocolError(p1)
        IN  IF err # "none"
            THEN [w1 EXCEPT !.pending.rejected = TRUE, !.error = err]
            ELSE LET w2 == [w1 EXCEPT !.syncQueue = Append(@, p1),
                                      !.pending.newBuffer = FALSE,
                                      !.pending.buffer = NoBuf,
                                      !.pending.bufAcquire = NoPoint,
                                      !.pending.bufRelease = NoPoint]
                     w3 == setSyncReleaser(w2, p1)
                 IN  addWaiter(w3, p1.bufAcquire, s, p1.id, "sync", ok)

\* a wait strategy that looks for the implicit fence before it asks whether the
\* buffer is synchronous
waitForStateFenceFirst(w, s, st, r, fdValid, ok, nullRead) ==
    IF st.updatedAcquire THEN addWaiter(w, st.acquire, s, st.id, "surf", ok)
    ELSE IF fdValid THEN [w EXCEPT !.fdw = @ \cup {<<s, st.id>>}]
    ELSE whenReadable(w, TRUE, st.id, r)

\* a wait strategy without the fallback: an asynchronous buffer whose fence
\* handle could not be obtained stays queued
waitForStateNoFallback(w, s, st, r, fdValid, ok, nullRead) ==
    IF st.updatedAcquire THEN addWaiter(w, st.acquire, s, st.id, "surf", ok)
    ELSE IF isSynchronous(st.buffer) THEN whenReadable(w, TRUE, st.id, r)
    ELSE IF fdValid THEN [w EXCEPT !.fdw = @ \cup {<<s, st.id>>}]
    ELSE w

\* the strategy by which setCommit waits for the queued state st.  When the
\* buffer reference of st is null (a buffer flagged new with a texture whose
\* reference was dropped), state->buffer->isSynchronous() and the calls after
\* it read through the null reference: the behaviour is undefined, the read
\* faults or yields nullRead.
waitForState(w, s, st, r, fdValid, ok, nullRead) ==
    IF st.updatedAcquire THEN addWaiter(w, st.acquire, s, st.id, "surf", ok)
    ELSE IF st.buffer = NoBuf /\ nullRead = "fault" THEN [w EXCEPT !.error = "NULL_DEREF"]
    ELSE IF (st.buffer # NoBuf /\ isSynchronous(st.buffer))
              \/ (st.buffer = NoBuf /\ nullRead = "synchronous")
    THEN whenReadable(w, TRUE, st.id, r)
    ELSE IF st.buffer = "dma" \/ (st.buffer = NoBuf /\ nullRead = "dmabuf")
    THEN IF fdValid THEN [w EXCEPT !.fdw = @ \cup {<<s, st.id>>}]
         ELSE whenReadable(w, TRUE, st.id, r)
    ELSE whenReadable(w, TRUE, st.id, r)

\* setCommit without its check of pending.rejected
commitIgnoringRejected(w, s, r, fdValid, ok, nullRead) ==
    IF ~w.pending.newBuffer \/ (w.pending.buffer = NoBuf /\ ~w.pending.texture)
    THEN [commitState(w, w.pending, r, "commit") EXCEPT !.pending = EmptyState]
    ELSE LET st == w.pending
             w1 == [w EXCEPT !.queue = Append(@, st), !.pending = EmptyState]
         IN  [w1 EXCEPT !.fdw = @ \cup {<<s, st.id>>}]

\* the wl_surface.commit handler, after the precommit listeners have run
commitAfterPrecommit(w, s, r, fdValid, ok, nullRead) ==
    IF w.pending.rejected
    THEN [w EXCEPT !.pending.rejected = FALSE, !.pending.buffer = NoBuf,
                   !.pending.bufAcquire = NoPoint, !.pending.bufRelease = NoPoint]
    ELSE IF ~w.pending.newBuffer \/ (w.pending.buffer = NoBuf /\ ~w.pending.texture)
    THEN [commitState(w, w.pending, r, "commit") EXCEPT !.pending = EmptyState]
    ELSE LET st == w.pending
             w1 == [w EXCEPT !.queue = Append(@, st), !.pending = EmptyState]
         IN  waitForState(w1, s, st, r, fdValid, ok, nullRead)

\* the wl_surface.commit handler
setCommit(w, s, r, hasSync, fdValid, ok, nullRead) ==
    LET w1 == IF hasSync THEN surfacePrecommit(w, s, r, ok, nullRead) ELSE w
    IN  IF w1.error = "NULL_DEREF" THEN w1
        ELSE commitAfterPrecommit(w1, s, r, fdValid, ok, nullRead)

\* the wl_surface.attach handler
setAttach(p, b, tex) ==
    [p EXCEPT !.newBuffer = TRUE, !.buffer = b, !.texture = (b # NoBuf /\ tex),
              !.bufAcquire = NoPoint, !.bufRelease = NoPoint]

\* ------------------------------------------------------------------ one sync point
\* A CDRMSyncPointState over a live timeline resource, with the tallies of what
\* its calls did to the timeline: waiters registered, releasers made, signals.
NewPoint ==
    [resGone |-> FALSE, tlNull |-> FALSE, releaseTaken |-> FALSE,
     acquireCommitted |-> FALSE, waiters |-> 0, releasers |-> 0, signals |-> 0,
     calls |-> 0, ret |-> "none"]

\* CDRMSyncPointState::expired on the object p
pointExpired(p) == p.resGone \/ p.tlNull

\* CDRMSyncPointState::timeline on the object p
pointTimeline(p) ==
    IF pointExpired(p) THEN [p EXCEPT !.ret = "empty"] ELSE [p EXCEPT !.ret = "timeline"]

\* CDRMSyncPointState::createSyncRelease on the object p
pointCreateSyncRelease(p) ==
    IF pointExpired(p) THEN [p EXCEPT !.ret = "null"]
    ELSE [p EXCEPT !.releaseTaken = TRUE, !.releasers = @ + 1, !.ret = "releaser"]

\* addWaiter that marks the point committed before it looks at expired()
pointAddWaiterEager(p, ok) ==
    IF pointExpired(p) THEN [p EXCEPT !.acquireCommitted = TRUE, !.ret = "false"]
    ELSE [p EXCEPT !.acquireCommitted = TRUE,
                   !.waiters = IF ok THEN @ + 1 ELSE @,
                   !.ret = IF ok THEN "true" ELSE "false"]

\* CDRMSyncPointState::addWaiter on the object p; ok is the timeline's answer
pointAddWaiter(p, ok) ==
    IF pointExpired(p) THEN [p EXCEPT !.ret = "false"]
    ELSE [p EXCEPT !.acquireCommitted = TRUE,
                   !.waiters = IF ok THEN @ + 1 ELSE @,
                   !.ret = IF ok THEN "true" ELSE "false"]

\* CDRMSyncPointState::comitted on the object p
pointComitted(p) == p.acquireCommitted

\* CDRMSyncPointState::exportAsFD on the object p; ok: the timeline exports a file
pointExportAsFD(p, ok) ==
    IF pointExpired(p) THEN [p EXCEPT !.ret = "invalid"]
    ELSE [p EXCEPT !.ret = IF ok THEN "fd" ELSE "invalid"]

\* CDRMSyncPointState::signal on the object p
pointSignal(p) ==
    IF pointExpired(p) THEN [p EXCEPT !.ret = "nothing"]
    ELSE [p EXCEPT !.signals = @ + 1, !.ret = "signalled"]

\* ------------------------------------------------------------------ initial state
NoCurrent == [id |-> 0, buffer |-> NoBuf, texture |-> FALSE]

Init ==
    /\ alive = [s \in AllSurfaces |-> TRUE]
    /\ role = [s \in AllSurfaces |-> NoRole]
    /\ syncobj = [s \in AllSurfaces |-> FALSE]
    /\ m_vSurfaces = <<>>
    /\ pending = [s \in AllSurfaces |-> EmptyState]
    /\ current = [s \in AllSurfaces |-> NoCurrent]
    /\ pendingStates = [s \in AllSurfaces |-> <<>>]
    /\ syncStates = [s \in AllSurfaces |-> <<>>]
    /\ pendingAcquire = [s \in AllSurfaces |-> NoPoint]
    /\ pendingRelease = [s \in AllSurfaces |-> NoPoint]
    /\ tlAlive = [t \in Timelines |-> TRUE]
    /\ tlNull = [t \in Timelines |-> FALSE]
    /\ tlGen = [t \in Timelines |-> 1]
    /\ mapped = [s \in AllSurfaces |-> FALSE]
    /\ tlValue = [t \in Timelines |-> 0]
    /\ waiters = {}
    /\ fdWaiters = {}
    /\ syncReleaser = [b \in Buffers |-> NoRel]
    /\ released = [i \in 1..MaxCommits |-> 0]
    /\ applied = [s \in AllSurfaces |-> <<>>]
    /\ skipped = {}
    /\ lastError = [s \in AllSurfaces |-> "none"]
    /\ nextId = 1
    /\ commitLimit = MaxCommits
    /\ pt = NewPoint

\* the client of s can still send requests: s exists and no fatal error was posted
canRequest(s) == alive[s] /\ lastError[s] = "none"

\* the run still has a commit left (requests that only prepare a commit stop with it)
commitsLeft == nextId <= commitLimit

\* ------------------------------------------------------------------ actions
\* wl_surface.attach
Attach(s, b, tex) ==
    /\ canRequest(s)
    /\ commitsLeft
    /\ pending' = [pending EXCEPT ![s] = setAttach(@, b, tex)]
    /\ UNCHANGED <<alive, role, syncobj, m_vSurfaces, current, pendingStates, syncStates,
                   pendingAcquire, pendingRelease, tlAlive, tlNull, tlGen, mapped, tlValue, waiters,
                   fdWaiters, syncReleaser, released, applied, skipped, lastError, nextId, commitLimit, pt>>

\* what a read through a null buffer reference does: it faults, or it yields
\* something that reads as a synchronous buffer, as a dmabuf, or as neither
NullReads == {"fault", "synchronous", "dmabuf", "other"}

\* the reads through a null reference a commit of the pending state p can
\* make: only a state flagged new, with a texture and without a buffer gets to
\* the places that read through pending.buffer or state->buffer
nullReads(p) == IF p.newBuffer /\ p.texture /\ p.buffer = NoBuf THEN NullReads ELSE {"none"}

\* wl_surface.commit
Commit(s, fdValid, ok) ==
    /\ canRequest(s)
    /\ commitsLeft
    /\ LET w0 == [World(s) EXCEPT !.pending.id = nextId]
       IN  \E nullRead \in nullReads(w0.pending) :
               Install(s, setCommit(w0, s, role[s], syncobj[s], fdValid, ok, nullRead))
    /\ nextId' = nextId + 1
    /\ UNCHANGED <<alive, role, syncobj, m_vSurfaces, tlAlive, tlNull, tlGen, mapped, commitLimit, pt>>

\* the event loop reports the implicit fence of the queued state id readable
FdReadable(s, id) ==
    /\ <<s, id>> \in fdWaiters
    /\ Install(s, whenReadable([World(s) EXCEPT !.fdw = @ \ {<<s, id>>}], alive[s], id, role[s]))
    /\ UNCHANGED <<alive, role, syncobj, m_vSurfaces, tlAlive, tlNull, tlGen, mapped, nextId, commitLimit, pt>>

\* get_surface that does not look at the adapter the surface already has
getSurfaceNoCheck(reg, has, s, good) ==
    IF ~good THEN [reg |-> reg, has |-> has, error |-> "NO_MEMORY"]
    ELSE [reg |-> Append([i \in 1..Len(reg) |->
                             IF reg[i].surf = s THEN [reg[i] EXCEPT !.bound = FALSE] ELSE reg[i]],
                         [surf |-> s, bound |-> TRUE]),
          has |-> TRUE, error |-> "none"]

\* the get_surface handler on the registry reg for surface s, whose syncobj
\* is live or not (has); good: the new resource could be allocated
getSurface(reg, has, s, good) ==
    IF has THEN [reg |-> reg, has |-> has, error |-> "SURFACE_EXISTS"]
    ELSE IF ~good THEN [reg |-> reg, has |-> has, error |-> "NO_MEMORY"]
    ELSE [reg |-> Append(reg, [surf |-> s, bound |-> TRUE]), has |-> TRUE, error |-> "none"]

\* wp_linux_drm_syncobj_manager_v1.get_surface
GetSurface(s, good) ==
    /\ canRequest(s)
    /\ commitsLeft
    /\ LET g == getSurface(m_vSurfaces, syncobj[s], s, good)
       IN  /\ m_vSurfaces' = g.reg
           /\ syncobj' = [syncobj EXCEPT ![s] = g.has]
           /\ lastError' = [lastError EXCEPT ![s] = g.error]
    /\ UNCHANGED <<alive, role, pending, current, pendingStates, syncStates,
                   pendingAcquire, pendingRelease, tlAlive, tlNull, tlGen, mapped, tlValue, waiters,
                   fdWaiters, syncReleaser, released, applied, skipped, nextId, commitLimit, pt>>

\* CDRMSyncobjTimelineResource::fromResource: the registered timeline or nothing
fromResource(t) == IF tlAlive[t] THEN t ELSE 0

\* which of the resources registered as t fromResource returns
resourceGen(t) == IF tlAlive[t] THEN tlGen[t] ELSE 0

\* set_acquire_point without the check of the surface
setAcquirePointUnchecked(s, t, hi, lo) ==
    /\ syncobj[s] /\ lastError[s] = "none"
    /\ commitsLeft
    /\ pendingAcquire' = [pendingAcquire EXCEPT ![s] =
                             [tl |-> fromResource(t), gen |-> resourceGen(t),
                                     point |-> pointValue(hi, lo),
                              acquirePoint |-> TRUE, staged |-> nextId]]
    /\ UNCHANGED <<alive, role, syncobj, m_vSurfaces, pending, current, pendingStates, syncStates,
                   pendingRelease, tlAlive, tlNull, tlGen, mapped, tlValue, waiters, fdWaiters,
                   syncReleaser, released, applied, skipped, lastError, nextId, commitLimit, pt>>

\* wp_linux_drm_syncobj_surface_v1.set_acquire_point
SetAcquirePoint(s, t, hi, lo) ==
    /\ syncobj[s] /\ lastError[s] = "none"
    /\ commitsLeft
    /\ IF ~alive[s]
       THEN /\ lastError' = [lastError EXCEPT ![s] = "NO_SURFACE"]
            /\ UNCHANGED pendingAcquire
       ELSE /\ pendingAcquire' = [pendingAcquire EXCEPT ![s] =
                                    [tl |-> fromResource(t), gen |-> resourceGen(t),
                                     point |-> pointValue(hi, lo),
                                     acquirePoint |-> TRUE, staged |-> nextId]]
            /\ UNCHANGED lastError
    /\ UNCHANGED <<alive, role, syncobj, m_vSurfaces, pending, current, pendingStates, syncStates,
                   pendingRelease, tlAlive, tlNull, tlGen, mapped, tlValue, waiters, fdWaiters,
                   syncReleaser, released, applied, skipped, nextId, commitLimit, pt>>

\* wp_linux_drm_syncobj_surface_v1.set_release_point
SetReleasePoint(s, t, hi, lo) ==
    /\ syncobj[s] /\ lastError[s] = "none"
    /\ commitsLeft
    /\ IF ~alive[s]
       THEN /\ lastError' = [lastError EXCEPT ![s] = "NO_SURFACE"]
            /\ UNCHANGED pendingRelease
       ELSE /\ pendingRelease' = [pendingRelease EXCEPT ![s] =
                                    [tl |-> fromResource(t), gen |-> resourceGen(t),
                                     point |-> pointValue(hi, lo),
                                     acquirePoint |-> FALSE, staged |-> nextId]]
            /\ UNCHANGED lastError
    /\ UNCHANGED <<alive, role, syncobj, m_vSurfaces, pending, current, pendingStates, syncStates,
                   pendingAcquire, tlAlive, tlNull, tlGen, mapped, tlValue, waiters, fdWaiters,
                   syncReleaser, released, applied, skipped, nextId, commitLimit, pt>>

\* std::erase_if(m_vSurfaces, ...): the registry without its i-th adapter
eraseAdapter(reg, i) == [k \in 1..(Len(reg) - 1) |-> IF k < i THEN reg[k] ELSE reg[k + 1]]

\* the i-th adapter is destroyed: CDRMSyncobjProtocol::destroyResource and
\* ~CDRMSyncobjSurfaceResource; the weak syncobj of its surface expires
DestroySyncobj(i) ==
    /\ i \in 1..Len(m_vSurfaces)
    /\ LET s == m_vSurfaces[i].surf
       IN  /\ Install(s, [removeAllWaiters(World(s)) EXCEPT !.pacq = NoPoint, !.prel = NoPoint])
           /\ syncobj' = IF m_vSurfaces[i].bound THEN [syncobj EXCEPT ![s] = FALSE] ELSE syncobj
    /\ m_vSurfaces' = eraseAdapter(m_vSurfaces, i)
    /\ UNCHANGED <<alive, role, tlAlive, tlNull, tlGen, mapped, nextId, commitLimit, pt>>

\* the error e is posted to the client of the surfaces
postError(e) == [s \in AllSurfaces |-> IF s \in Surfaces THEN e ELSE lastError[s]]

\* wp_linux_drm_syncobj_manager_v1.import_timeline under the name t.  good: the
\* new timeline resource could be allocated; if not, NO_MEMORY is posted and
\* nothing is registered.  Otherwise a new resource is registered as t; when
\* the import of the file fails (~imported) its timeline stays null and
\* INVALID_TIMELINE is posted.  Either error ends the requests of the client.
ImportTimeline(t, imported, good) ==
    /\ ~tlAlive[t]
    /\ tlGen[t] < MaxImports
    /\ commitsLeft
    /\ \A s \in Surfaces : lastError[s] = "none"
    /\ IF ~good
       THEN /\ lastError' = postError("NO_MEMORY")
            /\ UNCHANGED <<tlAlive, tlNull, tlGen, tlValue>>
       ELSE /\ tlAlive' = [tlAlive EXCEPT ![t] = TRUE]
            /\ tlGen' = [tlGen EXCEPT ![t] = @ + 1]
            /\ tlNull' = [tlNull EXCEPT ![t] = ~imported]
            /\ tlValue' = [tlValue EXCEPT ![t] = 0]
            /\ lastError' = IF imported THEN lastError ELSE postError("INVALID_TIMELINE")
    /\ UNCHANGED <<alive, role, syncobj, m_vSurfaces, pending, current, pendingStates, syncStates,
                   pendingAcquire, pendingRelease, mapped, waiters, fdWaiters, syncReleaser,
                   released, applied, skipped, nextId, commitLimit, pt>>

\* the timeline resource t is destroyed; its waiters are dropped, not invoked
DestroyTimeline(t) ==
    /\ tlAlive[t]
    /\ tlAlive' = [tlAlive EXCEPT ![t] = FALSE]
    /\ UNCHANGED <<tlNull, tlGen, mapped>>
    /\ waiters' = {x \in waiters : x.tl # t}
    /\ UNCHANGED <<alive, role, syncobj, m_vSurfaces, pending, current, pendingStates, syncStates,
                   pendingAcquire, pendingRelease, tlValue, fdWaiters, syncReleaser,
                   released, applied, skipped, lastError, nextId, commitLimit, pt>>

\* the producer signals timeline t to the value v
Signal(t, v) ==
    /\ tlAlive[t]
    /\ v > tlValue[t]
    /\ tlValue' = [tlValue EXCEPT ![t] = v]
    /\ UNCHANGED <<alive, role, syncobj, m_vSurfaces, pending, current, pendingStates, syncStates,
                   pendingAcquire, pendingRelease, tlAlive, tlNull, tlGen, mapped, waiters, fdWaiters,
                   syncReleaser, released, applied, skipped, lastError, nextId, commitLimit, pt>>

\* the queued state of the adapter with submission number id, or nothing
lockState(q, id) ==
    IF \E i \in 1..Len(q) : q[i].id = id
    THEN q[CHOOSE i \in 1..Len(q) : q[i].id = id]
    ELSE EmptyState

\* std::erase(pendingStates, wp)
eraseState(q, id) == SelectSeq(q, LAMBDA st : st.id # id)

\* an acquire waiter that drains: every state queued in front of id is applied too
RECURSIVE acquireWaiterDrain(_, _, _, _, _)
acquireWaiterDrain(w, surfAlive, id, r, nullRead) ==
    IF ~surfAlive \/ w.syncQueue = <<>> THEN w
    ELSE LET w1 == [commitPendingState(w, Head(w.syncQueue), r, "acquire")
                      EXCEPT !.syncQueue = Tail(@)]
         IN  IF Head(w.syncQueue).id = id THEN w1 ELSE acquireWaiterDrain(w1, surfAlive, id, r, nullRead)

\* an acquire waiter that applies its state and leaves it in the queue
acquireWaiterNoErase(w, surfAlive, id, r, nullRead) ==
    IF ~surfAlive THEN skip(w, surfAlive, id)
    ELSE IF lockState(w.syncQueue, id) = EmptyState THEN [w EXCEPT !.error = "NULL_DEREF"]
    ELSE commitPendingState(w, lockState(w.syncQueue, id), r, "acquire")

\* what *wp.lock() of the acquire waiter can read: its state while the state
\* is queued; once the state is gone wp.lock() is null and the read is
\* undefined, it faults or yields some state
staleReads(q, surfAlive, id) ==
    IF surfAlive /\ stateExpired(q, id) THEN {"fault", "other"} ELSE {"none"}

\* the acquire waiter the adapter registers for its queued state id: it asks
\* for the surface and not for its own state
acquireWaiter(w, surfAlive, id, r, nullRead) ==
    IF ~surfAlive THEN skip(w, surfAlive, id)
    ELSE IF lockState(w.syncQueue, id) = EmptyState /\ nullRead = "fault"
    THEN [w EXCEPT !.error = "NULL_DEREF"]
    ELSE [commitPendingState(w, lockState(w.syncQueue, id), r, "acquire")
            EXCEPT !.syncQueue = eraseState(@, id)]

\* the timeline invokes the waiter x, whose point has been reached
FireWaiter(x) ==
    /\ x \in waiters
    /\ tlValue[x.tl] >= x.point
    /\ LET w0 == [World(x.surf) EXCEPT !.waiters = @ \ {x}]
       IN  \E nullRead \in IF x.kind = "sync"
                            THEN staleReads(syncStates[x.surf], alive[x.surf], x.id)
                            ELSE {"none"} :
               Install(x.surf, IF x.kind = "sync"
                               THEN acquireWaiter(w0, alive[x.surf], x.id, role[x.surf], nullRead)
                               ELSE whenReadable(w0, alive[x.surf], x.id, role[x.surf]))
    /\ UNCHANGED <<alive, role, syncobj, m_vSurfaces, tlAlive, tlNull, tlGen, mapped, nextId, commitLimit, pt>>

\* the submission number of the buffer generation current[s] holds (0: none)
RECURSIVE lastBuffer(_)
lastBuffer(h) ==
    IF h = <<>> THEN 0
    ELSE IF h[Len(h)].buf # "same" THEN h[Len(h)].id
    ELSE lastBuffer(SubSeq(h, 1, Len(h) - 1))

CurrentGen(s) == IF current[s].buffer = NoBuf THEN 0 ELSE lastBuffer(applied[s])

\* the compositor is done reading buffer b: its commit has been applied and
\* is not the current one any more; the releaser kept on the buffer is
\* dropped and fires
TriggerReleaser(b) ==
    /\ syncReleaser[b] # NoRel
    /\ \A s \in AllSurfaces :
           /\ \A k \in 1..Len(syncStates[s]) : syncStates[s][k].id # syncReleaser[b].id
           /\ CurrentGen(s) # syncReleaser[b].id
    /\ \E s \in AllSurfaces : \E k \in 1..Len(applied[s]) :
           applied[s][k].id = syncReleaser[b].id /\ applied[s][k].via = "acquire"
    /\ LET w == fireReleaser([released |-> released, tlValue |-> tlValue], syncReleaser[b])
       IN  released' = w.released /\ tlValue' = w.tlValue
    /\ syncReleaser' = [syncReleaser EXCEPT ![b] = NoRel]
    /\ UNCHANGED <<alive, role, syncobj, m_vSurfaces, pending, current, pendingStates, syncStates,
                   pendingAcquire, pendingRelease, tlAlive, tlNull, tlGen, mapped, waiters, fdWaiters,
                   applied, skipped, lastError, nextId, commitLimit, pt>>

\* CWLSurfaceResource::map, called by the shell that maps the surface
Map(s) ==
    /\ alive[s] /\ ~mapped[s]
    /\ mapped' = [mapped EXCEPT ![s] = TRUE]
    /\ UNCHANGED <<alive, role, syncobj, m_vSurfaces, pending, current, pendingStates, syncStates,
                   pendingAcquire, pendingRelease, tlAlive, tlNull, tlGen, tlValue, waiters,
                   fdWaiters, syncReleaser, released, applied, skipped, lastError, nextId,
                   commitLimit, pt>>

\* CWLSurfaceResource::releaseBuffers, called by the compositor on the surface s
ReleaseBuffers(s, onlyCurrent) ==
    /\ alive[s]
    /\ LET w == releaseBuffers(World(s), onlyCurrent)
       IN  /\ pending' = [pending EXCEPT ![s] = w.pending]
           /\ current' = [current EXCEPT ![s] = w.current]
    /\ UNCHANGED <<alive, role, syncobj, m_vSurfaces, pendingStates, syncStates,
                   pendingAcquire, pendingRelease, tlAlive, tlNull, tlGen, mapped, tlValue, waiters,
                   fdWaiters, syncReleaser, released, applied, skipped, lastError, nextId,
                   commitLimit, pt>>

\* CWLSurfaceResource::unmap, called by the shell that unmaps the surface: the
\* current buffer is released, the surface stays
Unmap(s) ==
    /\ alive[s] /\ mapped[s]
    /\ mapped' = [mapped EXCEPT ![s] = FALSE]
    /\ LET w == releaseBuffers(World(s), TRUE)
       IN  /\ pending' = [pending EXCEPT ![s] = w.pending]
           /\ current' = [current EXCEPT ![s] = w.current]
    /\ UNCHANGED <<alive, role, syncobj, m_vSurfaces, pendingStates, syncStates,
                   pendingAcquire, pendingRelease, tlAlive, tlNull, tlGen, tlValue, waiters,
                   fdWaiters, syncReleaser, released, applied, skipped, lastError, nextId,
                   commitLimit, pt>>

\* CWLSurfaceResource::resetRole: s holds the default role object again.  The
\* subsurfaces vector of its parent is not touched: s stays in the tree
ResetRole(s) ==
    /\ alive[s]
    /\ role' = [role EXCEPT ![s].role = "unassigned"]
    /\ UNCHANGED <<alive, syncobj, m_vSurfaces, pending, current, pendingStates, syncStates,
                   pendingAcquire, pendingRelease, tlAlive, tlNull, tlGen, mapped, tlValue, waiters,
                   fdWaiters, syncReleaser, released, applied, skipped, lastError, nextId,
                   commitLimit, pt>>

\* wl_surface.destroy: CWLSurfaceResource::destroy (a mapped surface is
\* unmapped, both buffers are released), then the surface is freed
DestroySurface(s) ==
    /\ alive[s]
    /\ alive' = [alive EXCEPT ![s] = FALSE]
    /\ mapped' = [mapped EXCEPT ![s] = FALSE]
    /\ pending' = [pending EXCEPT ![s] = EmptyState]
    /\ current' = [current EXCEPT ![s] = releaseBuffers(World(s), FALSE).current]
    /\ pendingStates' = [pendingStates EXCEPT ![s] = <<>>]
    /\ UNCHANGED <<role, syncobj, m_vSurfaces, syncStates, pendingAcquire, pendingRelease, tlAlive, tlNull, tlGen,
                   tlValue, waiters, fdWaiters, syncReleaser, released, applied, skipped,
                   lastError, nextId, commitLimit, pt>>

\* the surface engine alone: no explicit-sync adapter is attached
Next ==
    \/ \E s \in Surfaces, b \in Buffers \cup {NoBuf}, tex \in BOOLEAN : Attach(s, b, tex)
    \/ \E s \in Surfaces, fdValid \in BOOLEAN : Commit(s, fdValid, TRUE)
    \/ \E s \in Surfaces, id \in 1..MaxCommits : FdReadable(s, id)
    \/ \E s \in Surfaces : Map(s)
    \/ \E s \in Surfaces : Unmap(s)
    \/ \E s \in Surfaces, onlyCurrent \in BOOLEAN : ReleaseBuffers(s, onlyCurrent)
    \/ \E s \in Surfaces : DestroySurface(s)

Spec == Init /\ [][Next]_vars

\* the surface engine with the explicit-sync adapter attached to the surface
InitSync ==
    /\ alive = [s \in AllSurfaces |-> TRUE]
    /\ role = [s \in AllSurfaces |-> NoRole]
    /\ syncobj = [s \in AllSurfaces |-> s \in Surfaces]
    /\ m_vSurfaces = [i \in 1..Cardinality(Surfaces) |-> [surf |-> i, bound |-> TRUE]]
    /\ pending = [s \in AllSurfaces |-> EmptyState]
    /\ current = [s \in AllSurfaces |-> NoCurrent]
    /\ pendingStates = [s \in AllSurfaces |-> <<>>]
    /\ syncStates = [s \in AllSurfaces |-> <<>>]
    /\ pendingAcquire = [s \in AllSurfaces |-> NoPoint]
    /\ pendingRelease = [s \in AllSurfaces |-> NoPoint]
    /\ tlAlive = [t \in Timelines |-> TRUE]
    /\ tlNull = [t \in Timelines |-> FALSE]
    /\ tlGen = [t \in Timelines |-> 1]
    /\ mapped = [s \in AllSurfaces |-> FALSE]
    /\ tlValue = [t \in Timelines |-> 0]
    /\ waiters = {}
    /\ fdWaiters = {}
    /\ syncReleaser = [b \in Buffers |-> NoRel]
    /\ released = [i \in 1..MaxCommits |-> 0]
    /\ applied = [s \in AllSurfaces |-> <<>>]
    /\ skipped = {}
    /\ lastError = [s \in AllSurfaces |-> "none"]
    /\ nextId = 1
    /\ commitLimit = MaxSyncCommits
    /\ pt = NewPoint

NextSync ==
    \/ \E s \in Surfaces, b \in Buffers \cup {NoBuf}, tex \in BOOLEAN : Attach(s, b, tex)
    \/ \E s \in Surfaces : Commit(s, TRUE, TRUE)
    \/ \E s \in Surfaces, t \in Timelines, v \in PointValues : SetAcquirePoint(s, t, 0, v)
    \/ \E s \in Surfaces, t \in Timelines, v \in ReleaseValues : SetReleasePoint(s, t, 0, v)
    \/ \E t \in Timelines, v \in PointValues : Signal(t, v)
    \/ \E x \in waiters : FireWaiter(x)
    \/ \E b \in Buffers : TriggerReleaser(b)
    \/ \E s \in Surfaces : ReleaseBuffers(s, TRUE)

SpecSync == InitSync /\ [][NextSync]_vars

\* ------------------------------------------------------------------ wait strategies
\* a surface with or without the adapter, and buffers with or without an
\* implicit-fence handle
InitWait ==
    /\ alive = [s \in AllSurfaces |-> TRUE]
    /\ role = [s \in AllSurfaces |-> NoRole]
    /\ \E has \in BOOLEAN :
           /\ syncobj = [s \in AllSurfaces |-> s \in Surfaces /\ has]
           /\ m_vSurfaces = IF has THEN [i \in 1..Cardinality(Surfaces) |-> [surf |-> i, bound |-> TRUE]]
                            ELSE <<>>
    /\ pending = [s \in AllSurfaces |-> EmptyState]
    /\ current = [s \in AllSurfaces |-> NoCurrent]
    /\ pendingStates = [s \in AllSurfaces |-> <<>>]
    /\ syncStates = [s \in AllSurfaces |-> <<>>]
    /\ pendingAcquire = [s \in AllSurfaces |-> NoPoint]
    /\ pendingRelease = [s \in AllSurfaces |-> NoPoint]
    /\ tlAlive = [t \in Timelines |-> TRUE]
    /\ tlNull = [t \in Timelines |-> FALSE]
    /\ tlGen = [t \in Timelines |-> 1]
    /\ mapped = [s \in AllSurfaces |-> FALSE]
    /\ tlValue = [t \in Timelines |-> 0]
    /\ waiters = {}
    /\ fdWaiters = {}
    /\ syncReleaser = [b \in Buffers |-> NoRel]
    /\ released = [i \in 1..MaxCommits |-> 0]
    /\ applied = [s \in AllSurfaces |-> <<>>]
    /\ skipped = {}
    /\ lastError = [s \in AllSurfaces |-> "none"]
    /\ nextId = 1
    /\ commitLimit = MaxSyncCommits
    /\ pt = NewPoint

NextWait ==
    \/ \E s \in Surfaces, b \in Buffers, tex \in BOOLEAN : Attach(s, b, tex)
    \/ \E s \in Surfaces, fdValid \in BOOLEAN : Commit(s, fdValid, TRUE)
    \/ \E s \in Surfaces, t \in Timelines, v \in PointValues : SetAcquirePoint(s, t, 0, v)
    \/ \E s \in Surfaces, t \in Timelines, v \in ReleaseValues : SetReleasePoint(s, t, 0, v)
    \/ \E t \in Timelines, v \in PointValues : Signal(t, v)
    \/ \E x \in waiters : FireWaiter(x)
    \/ \E s \in Surfaces, id \in 1..MaxCommits : FdReadable(s, id)
    \/ \E s \in Surfaces : ReleaseBuffers(s, TRUE)

SpecWait == InitWait /\ [][NextWait]_vars

\* commits of asynchronous buffers, with or without the adapter, under the
\* event loop's scheduling: a callback whose fence has signalled, or whose
\* file is readable, is dispatched eventually
NextFair ==
    \/ \E s \in Surfaces : Attach(s, "dma", TRUE)
    \/ \E s \in Surfaces : Commit(s, TRUE, TRUE)
    \/ \E s \in Surfaces, t \in Timelines : SetAcquirePoint(s, t, 0, 1)
    \/ \E s \in Surfaces : SetReleasePoint(s, 2, 0, 2)
    \/ \E t \in Timelines : Signal(t, 1)
    \/ \E x \in waiters : FireWaiter(x)
    \/ \E s \in Surfaces, id \in 1..MaxSyncCommits : FdReadable(s, id)

SpecFair ==
    /\ InitWait /\ [][NextFair]_vars
    /\ WF_vars(\E x \in waiters : FireWaiter(x))
    /\ WF_vars(\E s \in Surfaces, id \in 1..MaxSyncCommits : FdReadable(s, id))

\* ------------------------------------------------------------------ lifecycle
\* adapters come and go, and surfaces, adapters and timelines are destroyed
\* while commits are in flight
InitLife ==
    /\ alive = [s \in AllSurfaces |-> TRUE]
    /\ role = [s \in AllSurfaces |-> NoRole]
    /\ syncobj = [s \in AllSurfaces |-> FALSE]
    /\ m_vSurfaces = <<>>
    /\ pending = [s \in AllSurfaces |-> EmptyState]
    /\ current = [s \in AllSurfaces |-> NoCurrent]
    /\ pendingStates = [s \in AllSurfaces |-> <<>>]
    /\ syncStates = [s \in AllSurfaces |-> <<>>]
    /\ pendingAcquire = [s \in AllSurfaces |-> NoPoint]
    /\ pendingRelease = [s \in AllSurfaces |-> NoPoint]
    /\ tlAlive = [t \in Timelines |-> TRUE]
    /\ tlNull = [t \in Timelines |-> FALSE]
    /\ tlGen = [t \in Timelines |-> 1]
    /\ mapped = [s \in AllSurfaces |-> FALSE]
    /\ tlValue = [t \in Timelines |-> 0]
    /\ waiters = {}
    /\ fdWaiters = {}
    /\ syncReleaser = [b \in Buffers |-> NoRel]
    /\ released = [i \in 1..MaxCommits |-> 0]
    /\ applied = [s \in AllSurfaces |-> <<>>]
    /\ skipped = {}
    /\ lastError = [s \in AllSurfaces |-> "none"]
    /\ nextId = 1
    /\ commitLimit = MaxLifeCommits
    /\ pt = NewPoint

NextLife ==
    \/ \E s \in Surfaces, good \in BOOLEAN : GetSurface(s, good)
    \/ \E i \in 1..Cardinality(AllSurfaces) : DestroySyncobj(i)
    \/ \E s \in Surfaces : DestroySurface(s)
    \/ \E t \in Timelines : DestroyTimeline(t)
    \/ \E s \in Surfaces, b \in Buffers : Attach(s, b, TRUE)
    \/ \E s \in Surfaces : Commit(s, TRUE, TRUE)
    \/ \E s \in Surfaces, t \in Timelines : SetAcquirePoint(s, t, 0, 1)
    \/ \E s \in Surfaces : SetReleasePoint(s, 2, 0, 2)
    \/ \E t \in Timelines : Signal(t, 1)
    \/ \E x \in waiters : FireWaiter(x)
    \/ \E s \in Surfaces, id \in 1..MaxCommits : FdReadable(s, id)

SpecLife == InitLife /\ [][NextLife]_vars

\* ------------------------------------------------------------------ two surfaces
\* the surfaces of the run with two clients' surfaces
TwoSurfaces == {1, 2}

\* two surfaces, each with its adapter, that use the same timelines
InitTwo ==
    /\ alive = [s \in AllSurfaces |-> TRUE]
    /\ role = [s \in AllSurfaces |-> NoRole]
    /\ syncobj = [s \in AllSurfaces |-> s \in TwoSurfaces]
    /\ m_vSurfaces = [i \in 1..2 |-> [surf |-> i, bound |-> TRUE]]
    /\ pending = [s \in AllSurfaces |-> EmptyState]
    /\ current = [s \in AllSurfaces |-> NoCurrent]
    /\ pendingStates = [s \in AllSurfaces |-> <<>>]
    /\ syncStates = [s \in AllSurfaces |-> <<>>]
    /\ pendingAcquire = [s \in AllSurfaces |-> NoPoint]
    /\ pendingRelease = [s \in AllSurfaces |-> NoPoint]
    /\ tlAlive = [t \in Timelines |-> TRUE]
    /\ tlNull = [t \in Timelines |-> FALSE]
    /\ tlGen = [t \in Timelines |-> 1]
    /\ mapped = [s \in AllSurfaces |-> FALSE]
    /\ tlValue = [t \in Timelines |-> 0]
    /\ waiters = {}
    /\ fdWaiters = {}
    /\ syncReleaser = [b \in Buffers |-> NoRel]
    /\ released = [i \in 1..MaxCommits |-> 0]
    /\ applied = [s \in AllSurfaces |-> <<>>]
    /\ skipped = {}
    /\ lastError = [s \in AllSurfaces |-> "none"]
    /\ nextId = 1
    /\ commitLimit = MaxTwoCommits
    /\ pt = NewPoint

NextTwo ==
    \/ \E s \in TwoSurfaces, b \in {"dma", NoBuf} : Attach(s, b, b # NoBuf)
    \/ \E s \in TwoSurfaces : Commit(s, TRUE, TRUE)
    \/ \E s \in TwoSurfaces, t \in Timelines : SetAcquirePoint(s, t, 0, 1)
    \/ \E s \in TwoSurfaces : SetReleasePoint(s, 2, 0, 2)
    \/ \E t \in Timelines : Signal(t, 1)
    \/ \E x \in waiters : FireWaiter(x)
    \/ \E i \in 1..2 : DestroySyncobj(i)

SpecTwo == InitTwo /\ [][NextTwo]_vars

\* ------------------------------------------------------------------ roles
\* the roles a surface without a parent can have
RootRoles == {[NoRole EXCEPT !.role = r] : r \in {"unassigned", "toplevel", "cursor"}}

\* the sub-surface role under parent p at stacking position z, synchronized or not
SubRole(p, sync, z) == [role |-> "subsurface", sync |-> sync, parent |-> p, zIndex |-> z]

\* the stacking positions of a sub-surface in the tree below: under its parent
\* or over it, and 3 further from the parent than 2
ZIndexes(s) == IF s = 2 THEN {-1, 1} ELSE {-2, 2}

\* a tree of three surfaces: surface 1 is the root, 2 is a sub-surface of 1 and
\* 3 a sub-surface of 1 or of 2, each synchronized or desynchronized, below
\* or above its parent
InitRole ==
    /\ alive = [s \in AllSurfaces |-> TRUE]
    /\ \E r1 \in RootRoles, p3 \in {1, 2}, sync2, sync3 \in BOOLEAN,
          z2 \in ZIndexes(2), z3 \in ZIndexes(3) :
           /\ role = [s \in AllSurfaces |->
                         IF s = 1 THEN r1
                         ELSE IF s = 2 THEN SubRole(1, sync2, z2) ELSE SubRole(p3, sync3, z3)]
    /\ syncobj = [s \in AllSurfaces |-> FALSE]
    /\ m_vSurfaces = <<>>
    /\ pending = [s \in AllSurfaces |-> EmptyState]
    /\ current = [s \in AllSurfaces |-> NoCurrent]
    /\ pendingStates = [s \in AllSurfaces |-> <<>>]
    /\ syncStates = [s \in AllSurfaces |-> <<>>]
    /\ pendingAcquire = [s \in AllSurfaces |-> NoPoint]
    /\ pendingRelease = [s \in AllSurfaces |-> NoPoint]
    /\ tlAlive = [t \in Timelines |-> TRUE]
    /\ tlNull = [t \in Timelines |-> FALSE]
    /\ tlGen = [t \in Timelines |-> 1]
    /\ mapped = [s \in AllSurfaces |-> FALSE]
    /\ tlValue = [t \in Timelines |-> 0]
    /\ waiters = {}
    /\ fdWaiters = {}
    /\ syncReleaser = [b \in Buffers |-> NoRel]
    /\ released = [i \in 1..MaxCommits |-> 0]
    /\ applied = [s \in AllSurfaces |-> <<>>]
    /\ skipped = {}
    /\ lastError = [s \in AllSurfaces |-> "none"]
    /\ nextId = 1
    /\ commitLimit = MaxRoleCommits
    /\ pt = NewPoint

NextRole ==
    \/ \E s \in AllSurfaces, b \in Buffers : Attach(s, b, TRUE)
    \/ \E s \in AllSurfaces : Commit(s, TRUE, TRUE)
    \/ \E s \in AllSurfaces, id \in 1..MaxCommits : FdReadable(s, id)
    \/ \E s \in {1, 2} : ResetRole(s)
    \/ DestroySurface(2)

SpecRole == InitRole /\ [][NextRole]_vars

\* ------------------------------------------------------------------ one sync point
\* the calls a holder can make on one CDRMSyncPointState, and the destruction
\* of the timeline resource it points to
PointCall(p) ==
    /\ pt.calls < MaxCalls
    /\ pt' = [p EXCEPT !.calls = pt.calls + 1]
    /\ UNCHANGED <<alive, role, syncobj, m_vSurfaces, pending, current, pendingStates, syncStates,
                   pendingAcquire, pendingRelease, tlAlive, tlNull, tlGen, mapped, tlValue, waiters, fdWaiters,
                   syncReleaser, released, applied, skipped, lastError, nextId, commitLimit>>

PointTimeline == PointCall(pointTimeline(pt))
PointCreateSyncRelease == PointCall(pointCreateSyncRelease(pt))
PointAddWaiter(ok) == PointCall(pointAddWaiter(pt, ok))
PointExportAsFD(ok) == PointCall(pointExportAsFD(pt, ok))
PointSignal == PointCall(pointSignal(pt))

\* the timeline resource of the point is destroyed
PointDestroyTimeline ==
    /\ ~pt.resGone
    /\ pt' = [pt EXCEPT !.resGone = TRUE]
    /\ UNCHANGED <<alive, role, syncobj, m_vSurfaces, pending, current, pendingStates, syncStates,
                   pendingAcquire, pendingRelease, tlAlive, tlNull, tlGen, mapped, tlValue, waiters, fdWaiters,
                   syncReleaser, released, applied, skipped, lastError, nextId, commitLimit>>

\* the point is made over a timeline resource whose import worked or failed
InitPoint ==
    /\ alive = [s \in AllSurfaces |-> TRUE]
    /\ role = [s \in AllSurfaces |-> NoRole]
    /\ syncobj = [s \in AllSurfaces |-> FALSE]
    /\ m_vSurfaces = <<>>
    /\ pending = [s \in AllSurfaces |-> EmptyState]
    /\ current = [s \in AllSurfaces |-> NoCurrent]
    /\ pendingStates = [s \in AllSurfaces |-> <<>>]
    /\ syncStates = [s \in AllSurfaces |-> <<>>]
    /\ pendingAcquire = [s \in AllSurfaces |-> NoPoint]
    /\ pendingRelease = [s \in AllSurfaces |-> NoPoint]
    /\ tlAlive = [t \in Timelines |-> TRUE]
    /\ tlNull = [t \in Timelines |-> FALSE]
    /\ tlGen = [t \in Timelines |-> 1]
    /\ mapped = [s \in AllSurfaces |-> FALSE]
    /\ tlValue = [t \in Timelines |-> 0]
    /\ waiters = {}
    /\ fdWaiters = {}
    /\ syncReleaser = [b \in Buffers |-> NoRel]
    /\ released = [i \in 1..MaxCommits |-> 0]
    /\ applied = [s \in AllSurfaces |-> <<>>]
    /\ skipped = {}
    /\ lastError = [s \in AllSurfaces |-> "none"]
    /\ nextId = 1
    /\ commitLimit = 0
    /\ \E failed \in BOOLEAN : pt = [NewPoint EXCEPT !.tlNull = failed]

NextPoint ==
    \/ PointTimeline
    \/ PointCreateSyncRelease
    \/ \E ok \in BOOLEAN : PointAddWaiter(ok)
    \/ \E ok \in BOOLEAN : PointExportAsFD(ok)
    \/ PointSignal
    \/ PointDestroyTimeline

SpecPoint == InitPoint /\ [][NextPoint]_vars

\* ------------------------------------------------------------------ validation
\* the values a client can put into a staged point
ValidValues == 0..MaxValue

\* a staged point: never set, or set on a timeline that may have been destroyed since
StagedPoints(acq) ==
    {NoPoint} \cup {[tl |-> t, gen |-> 1, point |-> v, acquirePoint |-> acq, staged |-> 1] :
                        t \in Timelines, v \in ValidValues}

\* a surface with an adapter on which a buffer was attached and points were
\* staged; some timeline resources have been destroyed since
InitValid ==
    /\ alive = [s \in AllSurfaces |-> TRUE]
    /\ role = [s \in AllSurfaces |-> NoRole]
    /\ syncobj = [s \in AllSurfaces |-> s \in Surfaces]
    /\ m_vSurfaces = [i \in 1..Cardinality(Surfaces) |-> [surf |-> i, bound |-> TRUE]]
    /\ \E b \in Buffers, tex \in BOOLEAN :
           pending = [s \in AllSurfaces |->
                         IF s \in Surfaces THEN setAttach(EmptyState, b, tex) ELSE EmptyState]
    /\ current = [s \in AllSurfaces |-> NoCurrent]
    /\ pendingStates = [s \in AllSurfaces |-> <<>>]
    /\ syncStates = [s \in AllSurfaces |-> <<>>]
    /\ \E a \in StagedPoints(TRUE) :
           pendingAcquire = [s \in AllSurfaces |-> IF s \in Surfaces THEN a ELSE NoPoint]
    /\ \E r \in StagedPoints(FALSE) :
           pendingRelease = [s \in AllSurfaces |-> IF s \in Surfaces THEN r ELSE NoPoint]
    /\ tlAlive \in [Timelines -> BOOLEAN]
    /\ tlNull = [t \in Timelines |-> FALSE]
    /\ tlGen = [t \in Timelines |-> 1]
    /\ mapped = [s \in AllSurfaces |-> FALSE]
    /\ tlValue = [t \in Timelines |-> 0]
    /\ waiters = {}
    /\ fdWaiters = {}
    /\ syncReleaser = [b \in Buffers |-> NoRel]
    /\ released = [i \in 1..MaxCommits |-> 0]
    /\ applied = [s \in AllSurfaces |-> <<>>]
    /\ skipped = {}
    /\ lastError = [s \in AllSurfaces |-> "none"]
    /\ nextId = 1
    /\ commitLimit = 1
    /\ pt = NewPoint

NextValid == \E s \in Surfaces : Commit(s, TRUE, TRUE)

SpecValid == InitValid /\ [][NextValid]_vars

\* ------------------------------------------------------------------ refused waiters
\* the adapter's run in which the timeline may refuse to register a waiter
NextRefuse ==
    \/ \E s \in Surfaces, b \in Buffers : Attach(s, b, TRUE)
    \/ \E s \in Surfaces, ok \in BOOLEAN : Commit(s, TRUE, ok)
    \/ \E s \in Surfaces, t \in Timelines : SetAcquirePoint(s, t, 0, 1)
    \/ \E s \in Surfaces : SetReleasePoint(s, 2, 0, 2)
    \/ \E t \in Timelines : Signal(t, 1)
    \/ \E x \in waiters : FireWaiter(x)

SpecRefuse == InitSync /\ [][NextRefuse]_vars

\* ------------------------------------------------------------------ timelines
\* a surface with an adapter whose client imports and destroys timelines and
\* names them, registered or not, in its set-point requests
InitImport ==
    /\ alive = [s \in AllSurfaces |-> TRUE]
    /\ role = [s \in AllSurfaces |-> NoRole]
    /\ syncobj = [s \in AllSurfaces |-> s \in Surfaces]
    /\ m_vSurfaces = [i \in 1..Cardinality(Surfaces) |-> [surf |-> i, bound |-> TRUE]]
    /\ pending = [s \in AllSurfaces |-> EmptyState]
    /\ current = [s \in AllSurfaces |-> NoCurrent]
    /\ pendingStates = [s \in AllSurfaces |-> <<>>]
    /\ syncStates = [s \in AllSurfaces |-> <<>>]
    /\ pendingAcquire = [s \in AllSurfaces |-> NoPoint]
    /\ pendingRelease = [s \in AllSurfaces |-> NoPoint]
    /\ tlAlive = [t \in Timelines |-> FALSE]
    /\ tlNull = [t \in Timelines |-> FALSE]
    /\ tlGen = [t \in Timelines |-> 0]
    /\ mapped = [s \in AllSurfaces |-> FALSE]
    /\ tlValue = [t \in Timelines |-> 0]
    /\ waiters = {}
    /\ fdWaiters = {}
    /\ syncReleaser = [b \in Buffers |-> NoRel]
    /\ released = [i \in 1..MaxCommits |-> 0]
    /\ applied = [s \in AllSurfaces |-> <<>>]
    /\ skipped = {}
    /\ lastError = [s \in AllSurfaces |-> "none"]
    /\ nextId = 1
    /\ commitLimit = 1
    /\ pt = NewPoint

NextImport ==
    \/ \E t \in Timelines, imported, good \in BOOLEAN : ImportTimeline(t, imported, good)
    \/ \E t \in Timelines : DestroyTimeline(t)
    \/ \E s \in Surfaces : Attach(s, "dma", TRUE)
    \/ \E s \in Surfaces, t \in Timelines : SetAcquirePoint(s, t, 0, 1)
    \/ \E s \in Surfaces, t \in Timelines : SetReleasePoint(s, t, 0, 2)
    \/ \E s \in Surfaces : Commit(s, TRUE, TRUE)

SpecImport == InitImport /\ [][NextImport]_vars

\* ------------------------------------------------------------------ point values
\* the halves a client sends: the smallest, the largest and one in between
Halves == {0, 1, 2^HalfBits - 1}

\* a surface with an adapter on which a buffer is attached; no point is staged
InitHalves ==
    /\ alive = [s \in AllSurfaces |-> TRUE]
    /\ role = [s \in AllSurfaces |-> NoRole]
    /\ syncobj = [s \in AllSurfaces |-> s \in Surfaces]
    /\ m_vSurfaces = [i \in 1..Cardinality(Surfaces) |-> [surf |-> i, bound |-> TRUE]]
    /\ pending = [s \in AllSurfaces |->
                     IF s \in Surfaces THEN setAttach(EmptyState, "dma", TRUE) ELSE EmptyState]
    /\ current = [s \in AllSurfaces |-> NoCurrent]
    /\ pendingStates = [s \in AllSurfaces |-> <<>>]
    /\ syncStates = [s \in AllSurfaces |-> <<>>]
    /\ pendingAcquire = [s \in AllSurfaces |-> NoPoint]
    /\ pendingRelease = [s \in AllSurfaces |-> NoPoint]
    /\ tlAlive = [t \in Timelines |-> TRUE]
    /\ tlNull = [t \in Timelines |-> FALSE]
    /\ tlGen = [t \in Timelines |-> 1]
    /\ mapped = [s \in AllSurfaces |-> FALSE]
    /\ tlValue = [t \in Timelines |-> 0]
    /\ waiters = {}
    /\ fdWaiters = {}
    /\ syncReleaser = [b \in Buffers |-> NoRel]
    /\ released = [i \in 1..MaxCommits |-> 0]
    /\ applied = [s \in AllSurfaces |-> <<>>]
    /\ skipped = {}
    /\ lastError = [s \in AllSurfaces |-> "none"]
    /\ nextId = 1
    /\ commitLimit = 1
    /\ pt = NewPoint

NextHalves ==
    \/ \E s \in Surfaces, t \in Timelines, hi \in Halves, lo \in Halves :
           SetAcquirePoint(s, t, hi, lo)
    \/ \E s \in Surfaces, t \in Timelines, hi \in Halves, lo \in Halves :
           SetReleasePoint(s, t, hi, lo)
    \/ \E s \in Surfaces : Commit(s, TRUE, TRUE)

SpecHalves == InitHalves /\ [][NextHalves]_vars

\* ------------------------------------------------------------------ claims
\* the applies made from the in-flight queue of s, in order
QueueApplied(s) == SelectSeq(applied[s], LAMBDA e : e.via = "queue")

\* the last entry of the history of s
LastApplied(s) == applied[s][Len(applied[s])]

\* C1: the in-flight states of a surface are applied in the order they were
\* submitted, whatever the order of their readiness signals: the applies made
\* from the queue have increasing submission numbers, no state still queued
\* was submitted before one already applied from the queue, and current is
\* the state applied last.
C1_InOrder ==
    \A s \in Surfaces :
        /\ \A i, j \in 1..Len(QueueApplied(s)) :
               i < j => QueueApplied(s)[i].id < QueueApplied(s)[j].id
        /\ \A k \in 1..Len(pendingStates[s]), j \in 1..Len(QueueApplied(s)) :
               QueueApplied(s)[j].id < pendingStates[s][k].id
        /\ applied[s] # <<>> => current[s].id = LastApplied(s).id

\* C1 witness: two queued states were applied by the callback of the later
\* one, the readiness signal of the earlier one has still not fired
C1_Witness ==
    \E s \in Surfaces :
        /\ Len(QueueApplied(s)) >= 2
        /\ <<s, QueueApplied(s)[1].id>> \in fdWaiters
        /\ <<s, QueueApplied(s)[2].id>> \notin fdWaiters

\* C3: no state is applied while a state submitted before it is still waiting
\* in the in-flight queue (as claimed; the immediate path of setCommit breaks it)
C3_NoOvertake ==
    \A s \in Surfaces :
        \A i \in 1..Len(applied[s]), k \in 1..Len(pendingStates[s]) :
            applied[s][i].id < pendingStates[s][k].id

\* C4: once a null-buffer commit has been applied, no state submitted before it
\* is queued any more and none is applied afterwards (as claimed; setCommit
\* keeps the in-flight queue of the surface and its readiness callbacks)
C4_NullDiscards ==
    \A s \in Surfaces :
        \A i \in 1..Len(applied[s]) :
            (applied[s][i].buf = NoBuf /\ applied[s][i].via = "commit")
                => /\ \A k \in 1..Len(pendingStates[s]) : pendingStates[s][k].id > applied[s][i].id
                   /\ \A k \in 1..Len(syncStates[s]) : syncStates[s][k].id > applied[s][i].id
                   /\ \A j \in 1..Len(applied[s]) : j > i => applied[s][j].id >= applied[s][i].id

\* C2: a state that carries an explicit acquire point is applied only after its
\* own acquire fence has signalled: every apply in the history found the
\* acquire fence of its state signalled.
C2_AcquireFirst ==
    \A s \in Surfaces : \A i \in 1..Len(applied[s]) : applied[s][i].ready

\* C2 witness: the waiter of a later state has fired and applied it while an
\* earlier state of the surface still waits for its own fence
C2_Witness ==
    \E s \in Surfaces :
        /\ applied[s] # <<>> /\ LastApplied(s).via = "acquire"
        /\ syncStates[s] # <<>> /\ Head(syncStates[s]).id < LastApplied(s).id
        /\ ~fenceSignalled([tlValue |-> tlValue], Head(syncStates[s]))

\* C6: the release point of an accepted commit is signalled at most once, and
\* not while the commit is still queued or its buffer is current (as claimed;
\* the releaser kept on the buffer is destroyed by the next commit of that buffer)
C6_ReleaseOnce ==
    \A i \in 1..MaxCommits :
        /\ released[i] <= 1
        /\ released[i] >= 1 =>
               \A s \in Surfaces :
                   /\ \A k \in 1..Len(syncStates[s]) : syncStates[s][k].id # i
                   /\ CurrentGen(s) # i

ValidationErrors == {"NO_BUFFER", "NO_ACQUIRE_POINT", "NO_RELEASE_POINT", "CONFLICTING_POINTS"}

\* C9: a commit rejected by the validation of the adapter applies nothing:
\* current, both queues, the waiters, the releasers and the history are as
\* before the commit, and pending.rejected is false again when it returns.
C9_RejectedNoEffect ==
    [][\A s \in Surfaces :
          (lastError[s] = "none" /\ lastError'[s] \in ValidationErrors)
              => /\ current' = current
                 /\ pendingStates' = pendingStates
                 /\ syncStates' = syncStates
                 /\ waiters' = waiters
                 /\ fdWaiters' = fdWaiters
                 /\ syncReleaser' = syncReleaser
                 /\ released' = released
                 /\ tlValue' = tlValue
                 /\ applied' = applied
                 /\ ~pending'[s].rejected]_vars

\* C9 witness: a commit was rejected while an earlier accepted commit is queued
C9_Witness ==
    \E s \in Surfaces :
        /\ lastError[s] \in ValidationErrors
        /\ syncStates[s] # <<>>
        /\ nextId = 3

\* C5: a sync point yields at most one releaser (as claimed; createSyncRelease
\* logs the second call and makes a second releaser all the same)
C5_OneReleaser == pt.releasers <= 1

\* what a call on an expired point may answer
FailureAnswers == {"empty", "null", "false", "invalid", "nothing"}

\* C7: every call on an expired point fails without effect: it answers
\* empty / null / false / invalid / nothing, registers no waiter, makes no
\* releaser, signals nothing and leaves releaseTaken and committed as they were.
C7_ExpiredNoEffect ==
    [][(pointExpired(pt) /\ pt'.calls = pt.calls + 1)
          => /\ pt'.ret \in FailureAnswers
             /\ pt' = [pt EXCEPT !.calls = pt'.calls, !.ret = pt'.ret]]_vars

\* C7 witness: a point that was waited on and released from lost its timeline
\* resource and was then asked for another waiter
C7_Witness ==
    /\ pt.resGone /\ ~pt.tlNull
    /\ pt.releaseTaken /\ pt.waiters = 1
    /\ pt.ret = "false" /\ pt.calls = 3

\* the commit of s that this step makes was accepted by the adapter
Accepted(s) ==
    /\ lastError'[s] = "none"
    /\ Len(syncStates'[s]) = Len(syncStates[s]) + 1

\* the step is a commit of s with a textured new buffer and both points live
CommitWithPoints(s) ==
    /\ nextId' = nextId + 1
    /\ syncobj[s] /\ pending[s].buffer # NoBuf /\ pending[s].texture
    /\ ~expired(pendingAcquire[s]) /\ ~expired(pendingRelease[s])

\* C8: with both points on one timeline the commit is rejected with
\* CONFLICTING_POINTS exactly when acquire >= release and accepted when
\* acquire < release; with the points on two timelines it is always accepted.
C8_Conflict ==
    [][\A s \in Surfaces :
          CommitWithPoints(s) =>
              LET a == pendingAcquire[s]
                  r == pendingRelease[s]
              IN  /\ a.tl = r.tl /\ a.point >= r.point
                        => lastError'[s] = "CONFLICTING_POINTS" /\ ~Accepted(s)
                  /\ a.tl = r.tl /\ a.point < r.point => Accepted(s)
                  /\ a.tl # r.tl => Accepted(s)]_vars

\* C8 witness: a commit with equal points on one timeline was rejected
C8_Witness ==
    \E s \in Surfaces :
        /\ lastError[s] = "CONFLICTING_POINTS"
        /\ nextId = 2 /\ syncStates[s] = <<>>

\* the error the claimed priority gives the commit of s
ClaimedError(s) ==
    IF ~pending[s].texture THEN "NO_BUFFER"
    ELSE IF expired(pendingAcquire[s]) THEN "NO_ACQUIRE_POINT"
    ELSE IF expired(pendingRelease[s]) THEN "NO_RELEASE_POINT"
    ELSE IF pendingAcquire[s].tl = pendingRelease[s].tl
            /\ pendingAcquire[s].point >= pendingRelease[s].point THEN "CONFLICTING_POINTS"
    ELSE "none"

\* C10: the validation of a commit with a real new buffer raises the one error
\* the priority NO_BUFFER, NO_ACQUIRE_POINT, NO_RELEASE_POINT,
\* CONFLICTING_POINTS selects, and none when no condition holds.
C10_Priority ==
    [][\A s \in Surfaces :
          (nextId' = nextId + 1 /\ syncobj[s] /\ pending[s].buffer # NoBuf)
              => lastError'[s] = ClaimedError(s)]_vars

\* C10 witness: a commit that lacked both points was rejected for the acquire point
C10_Witness ==
    \E s \in Surfaces :
        /\ lastError[s] = "NO_ACQUIRE_POINT"
        /\ nextId = 2
        /\ expired(pendingRelease[s])

\* C11: a staged point goes to the commit it was staged for and to no later
\* one: every accepted state carries points staged for that very commit (as
\* claimed; the listener returns from a commit without a new buffer, or with a
\* null buffer, before it takes the staged points, so they stay staged)
C11_NotCarried ==
    \A s \in Surfaces : \A k \in 1..Len(syncStates[s]) :
        /\ syncStates[s][k].bufAcquire.staged = syncStates[s][k].id
        /\ syncStates[s][k].bufRelease.staged = syncStates[s][k].id

\* the step is a commit of s that brings a synchronous buffer and no sync point
SyncCommit(s) ==
    /\ nextId' = nextId + 1
    /\ ~syncobj[s]
    /\ pending[s].newBuffer /\ pending[s].buffer # NoBuf
    /\ isSynchronous(pending[s].buffer)

\* C12: a commit of a synchronous buffer without sync points is applied before
\* the request returns: the state and every state queued before it have been
\* applied in order, current is that state and the in-flight queue is empty.
C12_SyncAtOnce ==
    [][\A s \in Surfaces :
          SyncCommit(s) =>
              /\ pendingStates'[s] = <<>>
              /\ Len(applied'[s]) = Len(applied[s]) + Len(pendingStates[s]) + 1
              /\ \A k \in 1..Len(pendingStates[s]) :
                     applied'[s][Len(applied[s]) + k].id = pendingStates[s][k].id
              /\ applied'[s][Len(applied'[s])].id = nextId
              /\ current'[s].id = nextId]_vars

\* C12 witness: a synchronous commit was applied at once together with an
\* asynchronous one queued before it, whose implicit fence is still unreadable
C12_Witness ==
    \E s \in Surfaces :
        /\ Len(applied[s]) >= 2 /\ pendingStates[s] = <<>>
        /\ LastApplied(s).buf = "shm" /\ LastApplied(s).via = "queue"
        /\ applied[s][Len(applied[s]) - 1].buf = "dma"
        /\ <<s, applied[s][Len(applied[s]) - 1].id>> \in fdWaiters
        /\ current[s].id = LastApplied(s).id

\* the step is a commit of s with a real new buffer that was not rejected
RealCommit(s) ==
    /\ nextId' = nextId + 1
    /\ pending[s].newBuffer /\ pending[s].buffer # NoBuf
    /\ lastError'[s] = "none"

\* the commit of this step was applied, with all queued before it, on the spot
AppliedAtOnce(s) ==
    /\ pendingStates'[s] = <<>>
    /\ Len(applied'[s]) = Len(applied[s]) + Len(pendingStates[s]) + 1
    /\ applied'[s][Len(applied'[s])] = [id |-> nextId, buf |-> pending[s].buffer,
                                         via |-> "queue", ready |-> TRUE,
                                         emitted |-> <<s>>]
    /\ fdWaiters' = fdWaiters /\ waiters' = waiters

\* the commit of this step waits in the in-flight queue for its implicit fence
WaitsForFd(s) ==
    /\ pendingStates'[s] # <<>>
    /\ pendingStates'[s][Len(pendingStates'[s])].id = nextId
    /\ fdWaiters' = fdWaiters \cup {<<s, nextId>>}
    /\ applied' = applied /\ waiters' = waiters /\ current' = current

\* the commit of this step waits for its acquire fence: a waiter on the acquire
\* point was registered and the buffer has gone nowhere yet
WaitsForAcquire(s) ==
    /\ \E x \in waiters' \ waiters :
           /\ x.surf = s /\ x.id = nextId
           /\ x.tl = pendingAcquire[s].tl /\ x.point = pendingAcquire[s].point
    /\ \E k \in 1..Len(syncStates'[s]) :
           syncStates'[s][k].id = nextId /\ syncStates'[s][k].buffer = pending[s].buffer
    /\ fdWaiters' = fdWaiters
    /\ current'[s].buffer = current[s].buffer
    /\ \A i \in 1..Len(applied'[s]) : applied'[s][i].id = nextId => applied'[s][i].buf = "same"

\* C13: the wait of a commit follows the priority acquire point, synchronous
\* buffer, implicit fence, none: with an acquire point a fence waiter is
\* registered whatever the buffer; else a synchronous buffer is applied at
\* once; else an asynchronous buffer waits for its fence handle when there is
\* one and is applied at once when there is none.
C13_WaitPriority ==
    [][\A s \in Surfaces, fdValid \in BOOLEAN :
          (RealCommit(s) /\ Commit(s, fdValid, TRUE)) =>
              IF syncobj[s] THEN WaitsForAcquire(s)
              ELSE IF isSynchronous(pending[s].buffer) THEN AppliedAtOnce(s)
              ELSE IF fdValid THEN WaitsForFd(s)
              ELSE AppliedAtOnce(s)]_vars

\* C13 witness: a synchronous buffer with an acquire point waits for the fence
\* while nothing else is in flight
C13_Witness ==
    \E s \in Surfaces :
        /\ syncobj[s] /\ Len(syncStates[s]) = 1
        /\ isSynchronous(syncStates[s][1].buffer)
        /\ \E x \in waiters : x.surf = s /\ x.id = syncStates[s][1].id
        /\ current[s].buffer = NoBuf /\ fdWaiters = {}

\* the applies in the history of s that brought the buffer of commit i
BufferApplies(s, i) ==
    {k \in 1..Len(applied[s]) : applied[s][k].id = i /\ applied[s][k].buf \in Buffers}

\* C14: an accepted commit with acquire (T,a) and release (T,r) gets a waiter
\* on T for a and a releaser for (T,r) when it is accepted; the fired waiter
\* applies the state once and takes it from the adapter's queue, the buffer
\* of a commit is applied at most once and never through the surface's own
\* queue as well; the releaser of a commit exists until it fires, and it
\* fires at most once, leaving T at r or beyond.
C14_EndToEnd ==
    /\ [][\A s \in Surfaces :
            (nextId' = nextId + 1 /\ Accepted(s)) =>
                /\ [tl |-> pendingAcquire[s].tl, point |-> pendingAcquire[s].point,
                    surf |-> s, id |-> nextId, kind |-> "sync"] \in waiters'
                /\ syncReleaser'[pending[s].buffer] =
                       [tl |-> pendingRelease[s].tl, gen |-> pendingRelease[s].gen,
                        point |-> pendingRelease[s].point, id |-> nextId]]_vars
    /\ [][\A x \in waiters :
            FireWaiter(x) =>
                /\ applied'[x.surf] = Append(applied[x.surf],
                        [id |-> x.id, buf |-> lockState(syncStates[x.surf], x.id).buffer,
                         via |-> "acquire", ready |-> TRUE, emitted |-> <<x.surf>>])
                /\ \A k \in 1..Len(syncStates'[x.surf]) : syncStates'[x.surf][k].id # x.id
                /\ current'[x.surf].id = x.id]_vars
    /\ [](\A s \in Surfaces : \A i \in 1..MaxCommits :
             /\ Cardinality(BufferApplies(s, i)) <= 1
             /\ \A k \in 1..Len(pendingStates[s]) : pendingStates[s][k].id # i
             /\ released[i] <= 1
             /\ (\E k \in 1..Len(syncStates[s]) : syncStates[s][k].id = i)
                    => \/ \E b \in Buffers : syncReleaser[b].id = i
                       \/ released[i] = 1
             /\ \A b \in Buffers :
                    (released[i] = 1 /\ syncReleaser[b].id = i) => FALSE)
    /\ [][\A b \in Buffers :
            TriggerReleaser(b) =>
                /\ released'[syncReleaser[b].id] = 1
                /\ tlValue'[syncReleaser[b].tl] >= syncReleaser[b].point]_vars

\* C14 witness: one commit with acquire (T,1) and release (T,2) was accepted,
\* T was signalled to 1, the waiter applied the buffer, and once the buffer
\* was replaced the triggered releaser has signalled T to 2
C14_Witness ==
    \E s \in Surfaces : \E t \in Timelines :
        /\ Len(applied[s]) >= 2 /\ applied[s][2].via = "acquire"
        /\ applied[s][2].buf \in Buffers /\ applied[s][2].id = 1
        /\ syncStates[s] = <<>> /\ waiters = {}
        /\ released[1] = 1 /\ tlValue[t] = 2
        /\ \A b \in Buffers : syncReleaser[b] = NoRel

\* the adapters registered for surface s
AdaptersOf(s) == {i \in 1..Len(m_vSurfaces) : m_vSurfaces[i].surf = s}

\* C15: the destruction of a surface or of its adapter cancels the callbacks
\* of all its queued items: a destroyed surface has no acquire waiter and no
\* implicit-fence callback registered, a surface without adapter has an empty
\* adapter queue and no acquire waiter; and once a surface is destroyed no
\* step, whichever fence signals or callback runs, changes its pending or
\* current state, its in-flight queue or its history (as claimed;
\* CWLSurfaceResource::destroy cancels nothing, the callbacks stay registered
\* and return at their test of the surface)
C15_DestroyCancels ==
    /\ [](\A s \in Surfaces :
             ~alive[s] => /\ \A x \in waiters : x.surf # s
                          /\ \A f \in fdWaiters : f[1] # s)
    /\ [](\A s \in Surfaces :
             AdaptersOf(s) = {} =>
                 /\ syncStates[s] = <<>>
                 /\ \A x \in waiters : x.surf # s)
    /\ [][\A s \in Surfaces :
            ~alive[s] => /\ current'[s] = current[s]
                         /\ pending'[s] = pending[s]
                         /\ pendingStates'[s] = pendingStates[s]
                         /\ applied'[s] = applied[s]]_vars

\* C20: a surface has at most one adapter in the registry, and its syncobj is
\* live exactly when it has one; get_surface on a surface with a live adapter
\* raises SURFACE_EXISTS and registers nothing, a failed construction leaves
\* the registry as it was, and a successful one adds just the new adapter.
C20_OneAdapter ==
    /\ [](\A s \in AllSurfaces :
             /\ Cardinality(AdaptersOf(s)) <= 1
             /\ syncobj[s] <=> \E i \in AdaptersOf(s) : m_vSurfaces[i].bound)
    /\ [][\A s \in Surfaces, good \in BOOLEAN :
            GetSurface(s, good) =>
                /\ syncobj[s] => /\ lastError'[s] = "SURFACE_EXISTS"
                                 /\ m_vSurfaces' = m_vSurfaces /\ syncobj' = syncobj
                /\ (~syncobj[s] /\ ~good) => m_vSurfaces' = m_vSurfaces /\ syncobj' = syncobj
                /\ (~syncobj[s] /\ good) =>
                       /\ m_vSurfaces' = Append(m_vSurfaces, [surf |-> s, bound |-> TRUE])
                       /\ syncobj'[s] /\ lastError'[s] = "none"]_vars

\* C20 witness: the first adapter of a surface was destroyed with an accepted
\* commit still queued, the surface got a second adapter, and a further
\* get_surface was answered with SURFACE_EXISTS
C20_Witness ==
    \E s \in Surfaces :
        /\ lastError[s] = "SURFACE_EXISTS"
        /\ Cardinality(AdaptersOf(s)) = 1 /\ syncobj[s]
        /\ \E b \in Buffers : syncReleaser[b].id = 1
        /\ syncStates[s] = <<>> /\ Len(applied[s]) = 1 /\ applied[s][1].buf = "same"

\* the entries this step adds to the history of s
NewApplies(s) == (Len(applied[s]) + 1)..Len(applied'[s])

\* s is a sub-surface in synchronized mode
SyncSub(s) == role[s].role = "subsurface" /\ role[s].sync

\* C17: an apply on a synchronized sub-surface updates current and emits no
\* commit event, on that surface or on any other.
C17_SyncSubSilent ==
    [][\A s \in AllSurfaces :
          (SyncSub(s) /\ NewApplies(s) # {}) =>
              /\ \A k \in NewApplies(s) : applied'[s][k].emitted = <<>>
              /\ current'[s].id = applied'[s][Len(applied'[s])].id
              /\ applied'[s][Len(applied'[s])].buf \in Buffers
                     => current'[s].buffer = applied'[s][Len(applied'[s])].buf]_vars

\* C17 witness: a synchronized sub-surface below a synchronized sub-surface
\* has had a buffer applied, and no event was emitted
C17_Witness ==
    \E s \in AllSurfaces :
        /\ SyncSub(s) /\ SyncSub(role[s].parent)
        /\ Len(applied[s]) = 1 /\ applied[s][1].buf = "dma" /\ applied[s][1].emitted = <<>>
        /\ current[s].buffer = "dma"

\* the existing surfaces in the tree below s, at any depth
RECURSIVE Descendants(_)
Descendants(s) ==
    LET kids == {c \in AllSurfaces : role[c].parent = s /\ alive[c]}
    IN  kids \cup UNION {Descendants(c) : c \in kids}

\* the elements of a sequence
Range(q) == {q[i] : i \in 1..Len(q)}

\* C18: an apply on a surface that is not a synchronized sub-surface emits a
\* commit event on the surface and on exactly its synchronized descendants
\* (as claimed; commitState of a desynchronized sub-surface emits on the
\* surface alone and does not walk its tree)
C18_CommitEvents ==
    [][\A s \in AllSurfaces :
          ~SyncSub(s) =>
              \A k \in NewApplies(s) :
                  Range(applied'[s][k].emitted) = {s} \cup {d \in Descendants(s) : SyncSub(d)}]_vars

\* C19: after the apply of a state that brings a synchronous buffer, current
\* holds no buffer exactly when the surface has a role (as claimed;
\* commitState of a synchronized sub-surface returns before the release)
C19_RoleReleases ==
    [][\A s \in AllSurfaces :
          (NewApplies(s) # {} /\ applied'[s][Len(applied'[s])].buf \in Buffers
                /\ isSynchronous(applied'[s][Len(applied'[s])].buf))
              => (current'[s].buffer = NoBuf <=> role[s].role # "unassigned")]_vars

\* C16: surfaces are isolated: a commit of a surface that waits in its
\* adapter's queue for an acquire fence on a live timeline keeps its waiter,
\* whatever the other surfaces do, and so is applied once the fence signals
\* (as claimed; removeAllWaiters of one adapter clears the whole timeline, the
\* waiters of the other surfaces on it included)
C16_Isolated ==
    \A s \in TwoSurfaces : \A k \in 1..Len(syncStates[s]) :
        (alive[s] /\ ~expired(syncStates[s][k].bufAcquire))
            => \E x \in waiters : x.surf = s /\ x.id = syncStates[s][k].id

\* the halves the set-point requests of the lifecycle run are made with
LifeHalves == {0, 1, 2}

\* what no set-point request touches: the states of the surfaces and their queues
StatesUntouched ==
    /\ pending' = pending /\ current' = current
    /\ pendingStates' = pendingStates /\ syncStates' = syncStates
    /\ applied' = applied

\* C21: set_acquire_point / set_release_point on an adapter whose surface is
\* gone raises NO_SURFACE and leaves both staged points as they were; while the
\* surface exists the request replaces the staged point of its own kind, marked
\* as acquire resp. release, raises nothing, and touches neither the other
\* staged point nor the pending or current state nor a queue.
C21_SetPoint ==
    [][\A s \in Surfaces, t \in Timelines, hi \in LifeHalves, lo \in LifeHalves :
          /\ SetAcquirePoint(s, t, hi, lo) =>
                 /\ StatesUntouched /\ pendingRelease' = pendingRelease
                 /\ IF alive[s]
                    THEN /\ pendingAcquire'[s].acquirePoint
                         /\ pendingAcquire'[s].tl = fromResource(t)
                         /\ pendingAcquire'[s].point = pointValue(hi, lo)
                         /\ lastError' = lastError
                    ELSE /\ lastError'[s] = "NO_SURFACE"
                         /\ pendingAcquire' = pendingAcquire
          /\ SetReleasePoint(s, t, hi, lo) =>
                 /\ StatesUntouched /\ pendingAcquire' = pendingAcquire
                 /\ IF alive[s]
                    THEN /\ ~pendingRelease'[s].acquirePoint
                         /\ pendingRelease'[s].tl = fromResource(t)
                         /\ pendingRelease'[s].point = pointValue(hi, lo)
                         /\ lastError' = lastError
                    ELSE /\ lastError'[s] = "NO_SURFACE"
                         /\ pendingRelease' = pendingRelease]_vars

\* C21 witness: both points were staged while the surface existed, the surface
\* was destroyed, and a set-point request then raised NO_SURFACE and left both
C21_Witness ==
    \E s \in Surfaces :
        /\ ~alive[s] /\ lastError[s] = "NO_SURFACE"
        /\ pendingAcquire[s].tl # 0 /\ pendingAcquire[s].acquirePoint
        /\ pendingRelease[s].tl # 0 /\ ~pendingRelease[s].acquirePoint

\* the upper and the lower half of a point value
HighHalf(v) == v \div 2^HalfBits
LowHalf(v) == v % 2^HalfBits

\* C22: the staged value is hi * 2^HalfBits + lo for all halves, neither half
\* lost nor spilled into the other, and a commit whose points are on the same
\* timeline is rejected with CONFLICTING_POINTS exactly when the acquire value
\* is not below the release value in that full width: its upper half is
\* greater, or the upper halves are equal and its lower half is not smaller.
C22_FullWidth ==
    /\ [][\A s \in Surfaces, t \in Timelines, hi \in Halves, lo \in Halves :
              /\ SetAcquirePoint(s, t, hi, lo) =>
                     /\ pendingAcquire'[s].point = hi * 2^HalfBits + lo
                     /\ HighHalf(pendingAcquire'[s].point) = hi
                     /\ LowHalf(pendingAcquire'[s].point) = lo
              /\ SetReleasePoint(s, t, hi, lo) =>
                     /\ pendingRelease'[s].point = hi * 2^HalfBits + lo
                     /\ HighHalf(pendingRelease'[s].point) = hi
                     /\ LowHalf(pendingRelease'[s].point) = lo]_vars
    /\ [][\A s \in Surfaces :
              (/\ Commit(s, TRUE, TRUE)
               /\ pendingAcquire[s].tl # 0
               /\ pendingAcquire[s].tl = pendingRelease[s].tl)
                  => LET a == pendingAcquire[s].point
                         r == pendingRelease[s].point
                     IN  (lastError'[s] = "CONFLICTING_POINTS")
                            <=> \/ HighHalf(a) > HighHalf(r)
                                \/ HighHalf(a) = HighHalf(r) /\ LowHalf(a) >= LowHalf(r)]_vars

\* C22 witness: a commit was accepted whose acquire point has the upper half 0
\* and the largest lower half and whose release point, on the same timeline,
\* has the upper half 1 and the lower half 0
C22_Witness ==
    \E s \in Surfaces :
        /\ lastError[s] = "none" /\ Len(syncStates[s]) = 1
        /\ syncStates[s][1].bufAcquire.tl = syncStates[s][1].bufRelease.tl
        /\ syncStates[s][1].bufAcquire.point = 2^HalfBits - 1
        /\ syncStates[s][1].bufRelease.point = 2^HalfBits

\* the applies made by the adapter's acquire waiters on s, in order
AcquireApplied(s) == SelectSeq(applied[s], LAMBDA e : e.via = "acquire")

\* C23: the acquire waiters of the adapter apply the accepted commits of a
\* surface in the order they were submitted, whatever the order of their
\* fences: the applies they make have increasing submission numbers and no
\* commit still in the adapter's queue was submitted before one they have
\* applied (as claimed; the waiter applies and erases its own commit only)
C23_AcquireInOrder ==
    \A s \in Surfaces :
        /\ \A i, j \in 1..Len(AcquireApplied(s)) :
               i < j => AcquireApplied(s)[i].id < AcquireApplied(s)[j].id
        /\ \A k \in 1..Len(syncStates[s]), j \in 1..Len(AcquireApplied(s)) :
               AcquireApplied(s)[j].id < syncStates[s][k].id

\* no step of the callback changed a state, a queue or the history
CallbackNoOp ==
    /\ StatesUntouched
    /\ lastError' = lastError /\ syncReleaser' = syncReleaser /\ released' = released

\* every registered acquire waiter of an adapter still has its state in the
\* adapter's queue: the paths that empty the queue remove the waiters first
AcquireWaitersHaveState ==
    \A x \in waiters : x.kind = "sync" => ~stateExpired(syncStates[x.surf], x.id)

\* the world the acquire waiter of commit id of s would find once the state
\* of id has left the adapter's queue, and the one whenReadable would find
\* once it has left the surface's queue
WithoutSyncState(s, id) == [World(s) EXCEPT !.syncQueue = eraseState(@, id)]
WithoutQueuedState(s, id) == [World(s) EXCEPT !.queue = eraseState(@, id)]

\* the callback that went from w to w2 touched nothing
LeftAlone(w, w2) == [w2 EXCEPT !.skipped = w.skipped] = w

\* C24: every fence callback asks for the surface and for its own queued
\* state before it touches them: a callback that runs while the surface
\* exists and after its state has left the queue changes nothing and reads
\* no state that is gone, and each registered callback, the implicit-fence
\* callback of the surface as well as the acquire waiter of the adapter, is a
\* no-op when it is handed a queue without its state (as claimed; the
\* acquire waiter asks for the surface only and reads *wp.lock())
C24_Revalidates ==
    /\ [][/\ \A s \in Surfaces, id \in 1..MaxCommits :
                (FdReadable(s, id) /\ alive[s] /\ stateExpired(pendingStates[s], id))
                    => CallbackNoOp
           /\ \A x \in waiters :
                (FireWaiter(x) /\ x.kind = "sync" /\ alive[x.surf]
                      /\ stateExpired(syncStates[x.surf], x.id))
                    => CallbackNoOp]_vars
    /\ [](\A f \in fdWaiters :
              alive[f[1]] =>
                  LeftAlone(WithoutQueuedState(f[1], f[2]),
                            whenReadable(WithoutQueuedState(f[1], f[2]), TRUE, f[2],
                                         role[f[1]])))
    /\ [](\A x \in waiters :
              (x.kind = "sync" /\ alive[x.surf]) =>
                  \A nullRead \in staleReads(WithoutSyncState(x.surf, x.id).syncQueue, TRUE, x.id) :
                      LeftAlone(WithoutSyncState(x.surf, x.id),
                                acquireWaiter(WithoutSyncState(x.surf, x.id), TRUE, x.id,
                                              role[x.surf], nullRead)))

\* the submission numbers of the items in flight on s: in the surface's queue
\* or in the adapter's
InFlight(s) ==
    {pendingStates[s][k].id : k \in 1..Len(pendingStates[s])}
        \cup {syncStates[s][k].id : k \in 1..Len(syncStates[s])}

\* the positions of the history of s at which a queued item was applied
ItemApplies(s) == {k \in 1..Len(applied[s]) : applied[s][k].via \in {"queue", "acquire"}}

\* C25: an in-flight item ends applied or discarded and stays so: no item is
\* applied twice, no applied item is in a queue, and an item that has left the
\* queues, applied or discarded, neither enters a queue again nor is applied
\* (again) by any later step.
C25_Lifecycle ==
    /\ [](\A s \in Surfaces :
              /\ \A i, j \in ItemApplies(s) : i # j => applied[s][i].id # applied[s][j].id
              /\ \A i \in ItemApplies(s) : applied[s][i].id \notin InFlight(s))
    /\ [][\A s \in Surfaces, id \in 1..MaxCommits :
              (id < nextId /\ id \notin InFlight(s))
                  => /\ \A k \in 1..Len(pendingStates'[s]) : pendingStates'[s][k].id # id
                     /\ \A k \in 1..Len(syncStates'[s]) : syncStates'[s][k].id # id
                     /\ \A k \in (Len(applied[s]) + 1)..Len(applied'[s]) :
                            applied'[s][k].via \in {"queue", "acquire"} => applied'[s][k].id # id]_vars

\* C25 witness: the first commit was accepted by the adapter and discarded
\* with the adapter before its fence signalled; the timeline has signalled
\* since; the second commit waited for its implicit fence and was applied
C25_Witness ==
    \E s \in Surfaces, b \in Buffers :
        /\ alive[s] /\ nextId = 3 /\ InFlight(s) = {}
        /\ syncReleaser[b].id = 1
        /\ \A t \in Timelines : tlAlive[t] /\ tlValue[t] = 1
        /\ \A k \in ItemApplies(s) : applied[s][k].id = 2
        /\ ItemApplies(s) # {}

\* C26: a commit whose acquire waiter could not be registered is delivered at
\* once: when the adapter accepts a commit and the timeline refuses the
\* waiter, the commit is applied, buffer and all, in the same step and is not
\* left in a queue (as claimed; the listener ignores what addWaiter returns)
C26_RefusedDelivered ==
    [][\A s \in Surfaces :
          (/\ Commit(s, TRUE, FALSE)
           /\ pending[s].newBuffer /\ pending[s].texture
           /\ lastError'[s] = "none")
              => /\ nextId \notin InFlight(s)'
                 /\ \E k \in (Len(applied[s]) + 1)..Len(applied'[s]) :
                        applied'[s][k].id = nextId /\ applied'[s][k].buf \in Buffers]_vars

\* the readiness signal of the in-flight item id of s, or that of an item
\* queued after it, has fired: an implicit fence becomes readable by itself,
\* an acquire fence when its timeline reaches the point
SignalFired(s, id) ==
    \/ \E k \in 1..Len(pendingStates[s]) : pendingStates[s][k].id >= id
    \/ \E k \in 1..Len(syncStates[s]) :
           /\ syncStates[s][k].id >= id
           /\ fenceSignalled([tlValue |-> tlValue], syncStates[s][k])

\* C27: under fair dispatch of the callbacks, an in-flight item of a surface
\* that is not destroyed leaves the queue, applied or discarded, once its
\* readiness signal or that of a later-queued item has fired (as claimed; the
\* adapter's waiter of a later item applies that item alone)
C27_EventuallyApplied ==
    \A s \in Surfaces, id \in 1..MaxSyncCommits :
        (id \in InFlight(s) /\ SignalFired(s, id)) ~> (id \notin InFlight(s))

\* C28: comitted() is true only if an addWaiter call has registered a waiter
\* with the timeline (as claimed; addWaiter sets the flag before it asks the
\* timeline, so a refused waiter leaves comitted() true)
C28_CommittedMeansWaiter == pointComitted(pt) => pt.waiters > 0

\* the point p was staged after the previous commit of the surface
Fresh(p) == p.tl # 0 /\ p.staged = nextId

\* C29: a commit of a real new buffer uses exactly the points staged since the
\* surface's previous commit: without a freshly staged acquire point it is
\* rejected with NO_ACQUIRE_POINT, with one but without a freshly staged
\* release point it is rejected, and an accepted commit queues, waits on and
\* makes its releaser from the two freshly staged points (as claimed; points
\* staged before an earlier buffer-less commit are still used)
C29_FreshPoints ==
    [][\A s \in Surfaces :
          (Commit(s, TRUE, TRUE) /\ pending[s].newBuffer /\ pending[s].texture)
              => /\ ~Fresh(pendingAcquire[s]) => lastError'[s] = "NO_ACQUIRE_POINT"
                 /\ (Fresh(pendingAcquire[s]) /\ ~Fresh(pendingRelease[s]))
                        => lastError'[s] \in {"NO_ACQUIRE_POINT", "NO_RELEASE_POINT"}
                 /\ lastError'[s] = "none"
                        => /\ Len(syncStates'[s]) = Len(syncStates[s]) + 1
                           /\ syncStates'[s][Len(syncStates'[s])].bufAcquire = pendingAcquire[s]
                           /\ syncStates'[s][Len(syncStates'[s])].bufRelease = pendingRelease[s]
                           /\ syncReleaser'[pending[s].buffer].id = nextId]_vars

\* the timeline resource the point p names is missing: p names none, or the
\* resource has been destroyed (whatever was registered under its name
\* since), or its import had failed
TimelineGone(p) == p.tl = 0 \/ ~tlAlive[p.tl] \/ p.gen # tlGen[p.tl] \/ tlNull[p.tl]

\* C30: a set-point request stages the registered timeline resource it names,
\* or none when no such resource is registered; the step that destroys a
\* timeline resource leaves every point staged on it expired, and no later
\* import under the same name makes it live again; and a commit of
\* a real new buffer whose staged acquire point has no timeline is rejected
\* with NO_ACQUIRE_POINT (with an acquire timeline but no release timeline:
\* NO_RELEASE_POINT), queues nothing and leaves that staged point where it was.
C30_ExpiredRejected ==
    /\ [][\A s \in Surfaces, t \in Timelines :
              /\ SetAcquirePoint(s, t, 0, 1) =>
                     pendingAcquire'[s].tl = IF tlAlive[t] THEN t ELSE 0
              /\ SetReleasePoint(s, t, 0, 2) =>
                     pendingRelease'[s].tl = IF tlAlive[t] THEN t ELSE 0
              /\ DestroyTimeline(t) =>
                     /\ pendingAcquire[s].tl = t =>
                            expired(pendingAcquire[s])' /\ timeline(pendingAcquire[s])' = 0
                     /\ pendingRelease[s].tl = t =>
                            expired(pendingRelease[s])' /\ timeline(pendingRelease[s])' = 0
              /\ (\E imported, good \in BOOLEAN : ImportTimeline(t, imported, good)) =>
                     /\ expired(pendingAcquire[s]) => expired(pendingAcquire[s])'
                     /\ expired(pendingRelease[s]) => expired(pendingRelease[s])']_vars
    /\ [][\A s \in Surfaces :
              (Commit(s, TRUE, TRUE) /\ pending[s].newBuffer /\ pending[s].texture)
                  => /\ TimelineGone(pendingAcquire[s])
                            => /\ lastError'[s] = "NO_ACQUIRE_POINT"
                               /\ pendingAcquire'[s] = pendingAcquire[s]
                               /\ syncStates'[s] = syncStates[s] /\ waiters' = waiters
                     /\ (~TimelineGone(pendingAcquire[s]) /\ TimelineGone(pendingRelease[s]))
                            => /\ lastError'[s] = "NO_RELEASE_POINT"
                               /\ pendingRelease'[s] = pendingRelease[s]
                               /\ syncStates'[s] = syncStates[s] /\ waiters' = waiters]_vars

\* C30 witness: the acquire point was staged on a registered timeline, the
\* timeline resource was destroyed and another one imported under its name,
\* and the commit of a buffer was rejected with NO_ACQUIRE_POINT; the point is
\* still staged and nothing is queued
C30_Witness ==
    \E s \in Surfaces :
        /\ lastError[s] = "NO_ACQUIRE_POINT" /\ nextId = 2
        /\ pendingAcquire[s].tl # 0 /\ tlAlive[pendingAcquire[s].tl]
        /\ ~tlNull[pendingAcquire[s].tl]
        /\ pendingAcquire[s].gen # tlGen[pendingAcquire[s].tl]
        /\ syncStates[s] = <<>> /\ applied[s] = <<>>

\* the readability callbacks of s that would pass their checks if they ran now
PassingCallbacks(s) ==
    {id \in 1..MaxCommits :
        <<s, id>> \in fdWaiters /\ alive[s] /\ ~stateExpired(pendingStates[s], id)}

\* the positions of the in-flight queue of s at which the state id sits
SlotsOf(s, id) == {k \in 1..Len(pendingStates[s]) : pendingStates[s][k].id = id}

\* C31: a readability callback that passes its checks (surface alive, state
\* not expired) finds its state in the in-flight queue, exactly once: the
\* loop stops at that state with the queue not empty, after popping just the
\* states queued in front of it, so the final front() and pop() act on it.
C31_DrainNonEmpty ==
    \A s \in Surfaces : \A id \in PassingCallbacks(s) :
        LET w1 == drainBefore(World(s), id, role[s])
        IN  /\ Cardinality(SlotsOf(s, id)) = 1
            /\ w1.queue # <<>>
            /\ Head(w1.queue).id = id
            /\ \A k \in SlotsOf(s, id) :
                   Len(w1.queue) = Len(pendingStates[s]) - (k - 1)

\* C31 witness: a callback has passed its checks and popped its state, and a
\* callback that will pass them has its state queued behind another state
C31_Witness ==
    \E s \in Surfaces : \E id \in PassingCallbacks(s) :
        /\ QueueApplied(s) # <<>>
        /\ <<s, QueueApplied(s)[1].id>> \notin fdWaiters
        /\ \E k \in SlotsOf(s, id) : k >= 2

====
